---------------------------- MODULE Spec2Model ----------------------------
(***************************************************************************)
(* Retrieval and routing core of the knowledge-base backend:               *)
(*   - BM25Index        (backend/retrieval/bm25_index.py)                  *)
(*   - VectorStore      (backend/storage/vector_store.py)                  *)
(*   - HybridRetriever  (backend/retrieval/hybrid_retriever.py)            *)
(*   - QueryEngine      (backend/retrieval/query_engine.py)                *)
(*   - QueryRouter      (backend/routing/query_router.py)                  *)
(*   - the ingestion / deletion handlers that keep the two indices         *)
(*     (backend/main.py, backend/articles/publisher.py)                    *)
(*                                                                         *)
(* Texts are sequences of one-character strings, so that tokenisation is   *)
(* computed the way the code computes it.  Scores that the code keeps as   *)
(* floats are kept as exact integers or integer fractions.                 *)
(***************************************************************************)
EXTENDS Integers, Sequences, FiniteSets, TLC

VARIABLES
    corpus,            \* BM25Index.corpus: the chunks of the sparse index
    tokenized_corpus,  \* BM25Index.tokenized_corpus
    bm25,              \* BM25Index.bm25: None, or the statistics of a corpus
    collection,        \* VectorStore.collection: the entries of the dense store
    nextId,            \* number of chunk ids handed out so far (uuid4 is fresh)
    snapshot,          \* the pickle file written by BM25Index.save
    reranker_available,\* Reranker.available
    groq_client,       \* QueryRouter.groq_client: TRUE when a client was constructed
    writers,           \* per worker thread: where it is in add_chunks and save
    bm25_cache,        \* VectorStore._bm25_cache: per tenant, the lexical index if built
    last               \* the last operation: its arguments and what it returned

vars == <<corpus, tokenized_corpus, bm25, collection, nextId,
          snapshot, reranker_available, groq_client, writers, bm25_cache, last>>

sparseVars == <<corpus, tokenized_corpus, bm25>>

\* What the process is configured with, the snapshot file, and the worker threads.
envVars == <<snapshot, reranker_available, groq_client, writers, bm25_cache>>

-----------------------------------------------------------------------------
(* Bounds of the model.                                                    *)

\* Chunk ids ever handed out; also the largest batch and the largest top_k.
MaxChunks == 2

-----------------------------------------------------------------------------
(* Values.                                                                 *)

None == "None"

Tenants == {"1", "2"}

UserIds == Tenants \cup {None}

Sources == {"docA", "docB"}

\* The worker threads that asyncio.to_thread runs publish_article in.
Writers == {"w1", "w2"}

\* A thread that is not inside add_chunks or save.
Idle == [pc |-> "idle", chunks |-> <<>>]

NoWriters == [w \in Writers |-> Idle]

\* Python truthiness of an Optional[str] user id: None and "" are false.
Truthy(u) == u # None /\ u # ""

TxtAb == <<"A", "b", " ", "a">>

TxtBaAb == <<"b", "a", " ", "a", "b">>

TxtBa == <<"b", "a">>

TxtA == <<"a", " ", "!">>

\* Chunk texts (each holds at least one token) and query texts.
DocTexts == {TxtAb, TxtBaAb}

Queries == {TxtAb, TxtBa, TxtA}

TopKs == 1..MaxChunks

Range(s) == {s[i] : i \in 1..Len(s)}

Min(a, b) == IF a <= b THEN a ELSE b

Take(s, n) == SubSeq(s, 1, Min(n, Len(s)))

RECURSIVE SumTo(_, _)
SumTo(f, n) == IF n = 0 THEN 0 ELSE f[n] + SumTo(f, n - 1)

RECURSIVE SetSum(_, _)
SetSum(f, S) ==
    IF S = {} THEN 0
    ELSE LET x == CHOOSE y \in S : TRUE IN f[x] + SetSum(f, S \ {x})

-----------------------------------------------------------------------------
(* BM25Index._tokenize                                                     *)

Lower(c) == IF c = "A" THEN "a" ELSE IF c = "B" THEN "b" ELSE c

\* \w of the regular expression, over the characters of the model.
IsWordChar(c) == c \in {"a", "b", "A", "B", "_"}

\* re.findall(r'\b\w+\b', text): the maximal runs of word characters.
RECURSIVE WordRuns(_, _)
WordRuns(text, cur) ==
    IF text = <<>> THEN (IF cur = <<>> THEN <<>> ELSE <<cur>>)
    ELSE IF IsWordChar(Head(text)) THEN WordRuns(Tail(text), Append(cur, Head(text)))
    ELSE (IF cur = <<>> THEN <<>> ELSE <<cur>>) \o WordRuns(Tail(text), <<>>)

LowerText(text) == [i \in 1..Len(text) |-> Lower(text[i])]

LongerThanOne(t) == Len(t) > 1

Tokenize(text) == SelectSeq(WordRuns(LowerText(text), <<>>), LongerThanOne)

TokenizeAll(chunks) == [i \in 1..Len(chunks) |-> Tokenize(chunks[i].text)]

-----------------------------------------------------------------------------
(* rank_bm25.BM25Okapi, as BM25Index uses it.  The statistics are a        *)
(* function of the tokenized corpus they were built from, so the object is *)
(* kept as that corpus.  The logarithmic idf and the saturating term       *)
(* frequency are replaced by integer stand-ins with the same sign:         *)
(*   idf(w) = ln((N - n + 0.5) / (n + 0.5))  has the sign of  N - 2n,      *)
(*   a negative idf is replaced by epsilon * average idf (epsilon = 1/4),  *)
(*   a word that is not in the corpus has idf 0.                           *)
(* All idf values are scaled by 4 * |vocabulary|.                          *)

\* BM25Index.bm25 before any statistics were built (None in the code).
NoBM25 == [built |-> FALSE, docs |-> <<>>]

BM25Okapi(tc) == [built |-> TRUE, docs |-> tc]

Vocabulary(tc) == UNION {Range(tc[i]) : i \in 1..Len(tc)}

DocFreq(tc, w) == Cardinality({i \in 1..Len(tc) : w \in Range(tc[i])})

RawIdf(tc, w) == Len(tc) - 2 * DocFreq(tc, w)

IdfSum(tc) == SetSum([w \in Vocabulary(tc) |-> RawIdf(tc, w)], Vocabulary(tc))

Idf(tc, w) ==
    IF w \notin Vocabulary(tc) THEN 0
    ELSE IF RawIdf(tc, w) >= 0 THEN 4 * Cardinality(Vocabulary(tc)) * RawIdf(tc, w)
    ELSE IdfSum(tc)

TermFreq(doc, w) == Cardinality({i \in 1..Len(doc) : doc[i] = w})

\* BM25Okapi.get_scores(query): one score per document of the statistics.
GetScores(stats, q) ==
    [i \in 1..Len(stats.docs) |->
        SumTo([j \in 1..Len(q) |-> Idf(stats.docs, q[j]) * TermFreq(stats.docs[i], q[j])],
              Len(q))]

-----------------------------------------------------------------------------
(* BM25Index.  An index is the record of its three fields.                 *)

EmptyIndex == [corpus |-> <<>>, tokenized_corpus |-> <<>>, bm25 |-> NoBM25]

TheIndex == [corpus |-> corpus, tokenized_corpus |-> tokenized_corpus, bm25 |-> bm25]

\* What can be wrong with a snapshot file: pickle.load raises on it, or the
\* dict it holds lacks one of its two keys.
DamageKinds == {"unreadable", "no_corpus", "no_tokenized"}

\* No snapshot file on disk.
NoSnapshot == [exists |-> FALSE, corpus |-> <<>>, tokenized |-> <<>>, damage |-> "none"]

\* A save that writes the chunks without their tokens.
Save_CorpusOnly(idx) ==
    [exists |-> TRUE, corpus |-> idx.corpus, tokenized |-> <<>>, damage |-> "none"]

\* save: pickle.dump({"corpus": ..., "tokenized": ...})
Save(idx) ==
    [exists |-> TRUE, corpus |-> idx.corpus, tokenized |-> idx.tokenized_corpus,
     damage |-> "none"]

\* load: the fields are assigned one by one inside the try, so an exception
\* keeps what was assigned before it.  Without a file the index is left alone.
Load(idx, snap) ==
    IF ~snap.exists THEN idx
    ELSE IF snap.damage \in {"unreadable", "no_corpus"} THEN idx
    ELSE IF snap.damage = "no_tokenized" THEN [idx EXCEPT !.corpus = snap.corpus]
    ELSE [corpus |-> snap.corpus,
          tokenized_corpus |-> snap.tokenized,
          bm25 |-> IF snap.tokenized # <<>> THEN BM25Okapi(snap.tokenized) ELSE idx.bm25]

\* What load returns: True when the file exists and nothing raised.
LoadReturns(snap) == snap.exists /\ snap.damage = "none"

\* A tenant without an entry in _bm25_cache.
NotCached == [cached |-> FALSE, index |-> NoBM25, entries |-> <<>>]

\* self._bm25_cache = {}
NoCache == [u \in Tenants |-> NotCached]

\* No snapshot, no rerank provider, no classification provider, no thread at work,
\* no lexical index built.
BareEnv ==
    /\ snapshot = NoSnapshot
    /\ reranker_available = FALSE
    /\ groq_client = FALSE
    /\ writers = NoWriters
    /\ bm25_cache = NoCache

\* A build that keeps what was there and adds the chunks to it.
BuildFromChunks_Append(idx, chunks) ==
    [corpus |-> idx.corpus \o chunks,
     tokenized_corpus |-> idx.tokenized_corpus \o TokenizeAll(chunks),
     bm25 |-> BM25Okapi(idx.tokenized_corpus \o TokenizeAll(chunks))]

\* build_from_chunks: bm25 is rebuilt only when the tokenized corpus is not empty.
BuildFromChunks(idx, chunks) ==
    [corpus |-> chunks,
     tokenized_corpus |-> TokenizeAll(chunks),
     bm25 |-> IF TokenizeAll(chunks) # <<>> THEN BM25Okapi(TokenizeAll(chunks))
              ELSE idx.bm25]

\* An add that leaves the statistics for later.
AddChunks_StaleStatistics(idx, new_chunks) ==
    [corpus |-> idx.corpus \o new_chunks,
     tokenized_corpus |-> idx.tokenized_corpus \o TokenizeAll(new_chunks),
     bm25 |-> idx.bm25]

\* add_chunks: both lists are extended and the statistics rebuilt over all of it.
AddChunks(idx, new_chunks) ==
    LET tc == idx.tokenized_corpus \o TokenizeAll(new_chunks)
    IN [corpus |-> idx.corpus \o new_chunks,
        tokenized_corpus |-> tc,
        bm25 |-> IF tc # <<>> THEN BM25Okapi(tc) ELSE idx.bm25]

\* A removal that forgets the owner: every tenant's chunks of the source go.
RemoveKeeps_AnyOwner(chunk, source_name, user_id) == chunk.source # source_name

\* The chunks remove_by_source keeps: user_id None removes the source for everyone.
RemoveKeeps(chunk, source_name, user_id) ==
    ~(chunk.source = source_name /\ (user_id = None \/ chunk.user_id = user_id))

RemoveBySource(idx, source_name, user_id) ==
    BuildFromChunks(idx,
        SelectSeq(idx.corpus, LAMBDA c : RemoveKeeps(c, source_name, user_id)))

\* A sort that puts the lowest score first.
InsertByScore_Ascending(sorted, x) ==
    LET before == SelectSeq(sorted, LAMBDA y : y.score <= x.score)
        after == SelectSeq(sorted, LAMBDA y : y.score > x.score)
    IN before \o <<x>> \o after

\* scored.sort(key=score, reverse=True): stable, equal scores keep their order.
InsertByScore(sorted, x) ==
    LET before == SelectSeq(sorted, LAMBDA y : y.score >= x.score)
        after == SelectSeq(sorted, LAMBDA y : y.score < x.score)
    IN before \o <<x>> \o after

RECURSIVE SortByScoreDesc(_)
SortByScoreDesc(s) ==
    IF s = <<>> THEN <<>>
    ELSE InsertByScore(SortByScoreDesc(SubSeq(s, 1, Len(s) - 1)), s[Len(s)])

\* The tenant test of search: no user id (None, "") lets every chunk through.
SearchSkips(chunk, user_id) == Truthy(user_id) /\ chunk.user_id # user_id

WithBm25Score(e) ==
    [id |-> e.chunk.id, text |-> e.chunk.text, source |-> e.chunk.source,
     user_id |-> e.chunk.user_id, bm25_score |-> e.score]

\* search raises IndexError when the statistics cover more documents than corpus.
BM25SearchRaises(idx, query) ==
    /\ idx.bm25.built
    /\ idx.corpus # <<>>
    /\ Tokenize(query) # <<>>
    /\ Len(idx.bm25.docs) > Len(idx.corpus)

BM25Search(idx, query, top_k, user_id) ==
    IF ~idx.bm25.built \/ idx.corpus = <<>> THEN <<>>
    ELSE IF Tokenize(query) = <<>> THEN <<>>
    ELSE LET scores == GetScores(idx.bm25, Tokenize(query))
             n == Min(Len(scores), Len(idx.corpus))
             all == [i \in 1..n |-> [score |-> scores[i], chunk |-> idx.corpus[i]]]
             scored == SelectSeq(all, LAMBDA e : ~SearchSkips(e.chunk, user_id))
             top == Take(SortByScoreDesc(scored), top_k)
         IN [i \in 1..Len(top) |-> WithBm25Score(top[i])]

IsEmpty(idx) == Len(idx.corpus) = 0

-----------------------------------------------------------------------------
(* Chunks handed to the index: a batch is the chunks of one source of one  *)
(* owner, as every ingestion handler builds it, with fresh ids.            *)

TextLists == UNION {[1..n -> DocTexts] : n \in 0..MaxChunks}

MakeChunks(texts, source, user_id, firstId) ==
    [i \in 1..Len(texts) |->
        [id |-> firstId + i, text |-> texts[i], source |-> source, user_id |-> user_id]]

-----------------------------------------------------------------------------
(* The sparse index on its own: build, add, remove and search in any order. *)

SparseInit ==
    /\ corpus = <<>>
    /\ tokenized_corpus = <<>>
    /\ bm25 = NoBM25
    /\ collection = <<>>
    /\ nextId = 0
    /\ BareEnv
    /\ last = [op |-> "init"]

SetIndex(idx) ==
    /\ corpus' = idx.corpus
    /\ tokenized_corpus' = idx.tokenized_corpus
    /\ bm25' = idx.bm25

IndexBuild ==
    \E texts \in TextLists, s \in Sources, u \in UserIds :
        /\ nextId + Len(texts) <= MaxChunks
        /\ SetIndex(BuildFromChunks(TheIndex, MakeChunks(texts, s, u, nextId)))
        /\ nextId' = nextId + Len(texts)
        /\ last' = [op |-> "build_from_chunks", before |-> TheIndex,
                    chunks |-> MakeChunks(texts, s, u, nextId)]
        /\ UNCHANGED collection
        /\ UNCHANGED envVars

IndexAdd ==
    \E texts \in TextLists, s \in Sources, u \in UserIds :
        /\ nextId + Len(texts) <= MaxChunks
        /\ SetIndex(AddChunks(TheIndex, MakeChunks(texts, s, u, nextId)))
        /\ nextId' = nextId + Len(texts)
        /\ last' = [op |-> "add_chunks", before |-> TheIndex,
                    chunks |-> MakeChunks(texts, s, u, nextId)]
        /\ UNCHANGED collection
        /\ UNCHANGED envVars

IndexRemove ==
    \E s \in Sources, u \in UserIds :
        /\ SetIndex(RemoveBySource(TheIndex, s, u))
        /\ last' = [op |-> "remove_by_source", source |-> s, user_id |-> u,
                    before |-> corpus]
        /\ UNCHANGED <<collection, nextId>>
        /\ UNCHANGED envVars

\* One requester's searches: every query and top_k, and what each call returns.
IndexSearch ==
    \E u \in UserIds :
        /\ \A q \in Queries : ~BM25SearchRaises(TheIndex, q)
        /\ last' = [op |-> "search", user_id |-> u,
                    result |-> [q \in Queries |->
                                  [k \in TopKs |-> BM25Search(TheIndex, q, k, u)]]]
        /\ UNCHANGED <<sparseVars, collection, nextId>>
        /\ UNCHANGED envVars

SparseNext == IndexBuild \/ IndexAdd \/ IndexRemove \/ IndexSearch

SparseSpec == SparseInit /\ [][SparseNext]_vars

-----------------------------------------------------------------------------
(* Searches over an index built from any corpus: up to three chunks, of    *)
(* either tenant, one of which repeats its word, so that the scores of the *)
(* chunks of one tenant differ.                                            *)

TxtAbAb == <<"a", "b", " ", "a", "b">>

RankTexts == DocTexts \cup {TxtAbAb}

RankCorpora ==
    UNION {[1..n -> [text : RankTexts, user_id : Tenants]] : n \in 0..(MaxChunks + 1)}

RankChunks(c) ==
    [i \in 1..Len(c) |->
        [id |-> i, text |-> c[i].text, source |-> "docA", user_id |-> c[i].user_id]]

RankInit ==
    /\ \E c \in RankCorpora :
          /\ corpus = BuildFromChunks(EmptyIndex, RankChunks(c)).corpus
          /\ tokenized_corpus = BuildFromChunks(EmptyIndex, RankChunks(c)).tokenized_corpus
          /\ bm25 = BuildFromChunks(EmptyIndex, RankChunks(c)).bm25
          /\ nextId = Len(c)
    /\ collection = <<>>
    /\ BareEnv
    /\ last = [op |-> "init"]

RankSpec == RankInit /\ [][IndexSearch]_vars

-----------------------------------------------------------------------------
(* RecursiveChunker.chunk_documents: a document arrives with the pieces    *)
(* the text splitter cut it into; every piece becomes a chunk that carries *)
(* its position within its own document.                                   *)

ChunkOneDocument(doc) ==
    [i \in 1..Len(doc.pieces) |->
        [text |-> doc.pieces[i], source |-> doc.source,
         chunk_index |-> i - 1, total_chunks |-> Len(doc.pieces)]]

RECURSIVE ChunkDocuments(_)
ChunkDocuments(documents) ==
    IF documents = <<>> THEN <<>>
    ELSE ChunkOneDocument(Head(documents)) \o ChunkDocuments(Tail(documents))

-----------------------------------------------------------------------------
(* VectorStore over a ChromaDB collection.  The collection is the sequence *)
(* of its entries in insertion order.  The embedding distance of an entry  *)
(* to the query is the provider's: dist gives it per text, in hundredths.  *)

Distances == {70, 75}

Thresholds == {25, 30}

SourceFilters == Sources \cup {None}

\* add_documents: one entry per document, each with a fresh id and the owner's tag.
AddDocuments(coll, documents, user_id, firstId) ==
    coll \o [i \in 1..Len(documents) |->
                [id |-> firstId + i,
                 text |-> documents[i].text,
                 user_id |-> user_id,
                 source |-> documents[i].source,
                 chunk_index |-> documents[i].chunk_index,
                 total_chunks |-> documents[i].total_chunks]]

AddedIds(documents, firstId) == [i \in 1..Len(documents) |-> firstId + i]

\* A filter that drops the owner clause once a source filter is given.
SearchWhere_SourceOnly(e, user_id, source_filter) ==
    IF source_filter # None THEN e.source = source_filter ELSE e.user_id = user_id

\* The where filter of search: the owner always, the source when one is given.
SearchWhere(e, user_id, source_filter) ==
    IF source_filter # None
    THEN e.user_id = user_id /\ e.source = source_filter
    ELSE e.user_id = user_id

\* The where filter of get_chunks_by_source and delete_by_source.
SourceWhere(e, source_name, user_id) ==
    e.user_id = user_id /\ e.source = source_name

\* collection.query: the n_results matching entries nearest to the query.
CollectionQuery(coll, dist, user_id, source_filter, n_results) ==
    LET matching == SelectSeq(coll, LAMBDA e : SearchWhere(e, user_id, source_filter))
        keyed == [i \in 1..Len(matching) |->
                    [score |-> 0 - dist[matching[i].text], entry |-> matching[i]]]
    IN Take(SortByScoreDesc(keyed), n_results)

\* A search that keeps every hit.
PassesThreshold_Always(distance, threshold) == TRUE

\* similarity = 1 - distance, kept when it reaches the threshold.
PassesThreshold(distance, threshold) == 100 - distance >= threshold

VectorStoreSearch(coll, dist, user_id, top_k, threshold, source_filter) ==
    LET hits == CollectionQuery(coll, dist, user_id, source_filter, top_k)
        kept == SelectSeq(hits, LAMBDA h : PassesThreshold(0 - h.score, threshold))
    IN [i \in 1..Len(kept) |->
          [id |-> kept[i].entry.id, text |-> kept[i].entry.text,
           user_id |-> kept[i].entry.user_id, source |-> kept[i].entry.source,
           similarity |-> 100 + kept[i].score]]

\* chunks.sort(key=chunk_index): stable, ascending.
SortByChunkIndex(chunks) ==
    LET keyed == [i \in 1..Len(chunks) |->
                    [score |-> 0 - chunks[i].chunk_index, entry |-> chunks[i]]]
        sorted == SortByScoreDesc(keyed)
    IN [i \in 1..Len(sorted) |-> sorted[i].entry]

GetChunksBySource(coll, source_name, user_id) ==
    LET found == SelectSeq(coll, LAMBDA e : SourceWhere(e, source_name, user_id))
    IN SortByChunkIndex([i \in 1..Len(found) |->
          [id |-> found[i].id, text |-> found[i].text,
           chunk_index |-> found[i].chunk_index,
           total_chunks |-> found[i].total_chunks]])

NotFound == [found |-> FALSE]

\* The ownership test of get_chunk_with_context.
OwnsChunk(e, user_id) == e.user_id = user_id

GetChunkWithContext(coll, chunk_id, user_id, context_size) ==
    LET got == SelectSeq(coll, LAMBDA e : e.id = chunk_id)
    IN IF got = <<>> THEN NotFound
       ELSE IF ~OwnsChunk(got[1], user_id) THEN NotFound
       ELSE LET ci == got[1].chunk_index
                all_chunks == GetChunksBySource(coll, got[1].source, user_id)
            IN [found |-> TRUE,
                id |-> chunk_id,
                text |-> got[1].text,
                source |-> got[1].source,
                chunk_index |-> ci,
                prev_chunks |-> SelectSeq(all_chunks, LAMBDA c :
                    ci - context_size <= c.chunk_index /\ c.chunk_index < ci),
                next_chunks |-> SelectSeq(all_chunks, LAMBDA c :
                    ci < c.chunk_index /\ c.chunk_index <= ci + context_size)]

\* delete_by_source: the entries left, and the number removed.
\* A delete that takes the source away from every tenant.
DeleteBySource_AnyOwner(coll, source_name, user_id) ==
    SelectSeq(coll, LAMBDA e : e.source # source_name)

DeleteBySource(coll, source_name, user_id) ==
    SelectSeq(coll, LAMBDA e : ~SourceWhere(e, source_name, user_id))

DeletedCount(coll, source_name, user_id) ==
    Len(SelectSeq(coll, LAMBDA e : SourceWhere(e, source_name, user_id)))

\* VectorStore._tokenize: the lowercased runs of word characters, of any length.
StoreTokenize(text) == WordRuns(LowerText(text), <<>>)

\* _build_bm25_index: the tenant's entries as collection.get returns them, and
\* the statistics of their texts; no statistics when the tenant has no entry.
BuildBm25Index(coll, user_id) ==
    LET entries == SelectSeq(coll, LAMBDA e : e.user_id = user_id)
    IN [cached |-> TRUE,
        index |-> IF entries = <<>> THEN NoBM25
                  ELSE BM25Okapi([i \in 1..Len(entries) |-> StoreTokenize(entries[i].text)]),
        entries |-> entries]

\* _invalidate_bm25_index: del self._bm25_cache[user_id]
InvalidateBm25Index(cache, user_id) == [cache EXCEPT ![user_id] = NotCached]

\* A delete_by_source that leaves the cache as it is.
DeleteInvalidates_Never(cache, coll, source_name, user_id) == cache

\* The end of delete_by_source: the cache entry goes when something was deleted.
DeleteInvalidates(cache, coll, source_name, user_id) ==
    IF DeletedCount(coll, source_name, user_id) > 0
    THEN InvalidateBm25Index(cache, user_id) ELSE cache

\* The end of add_documents: the cache entry goes unless there was nothing to add.
AddInvalidates(cache, documents, user_id) ==
    IF documents = <<>> THEN cache ELSE InvalidateBm25Index(cache, user_id)

\* bm25_search on the tenant's cache entry.
Bm25SearchCached(entry, query, top_k, source_filter) ==
    IF entry.entries = <<>> THEN <<>>
    ELSE LET scores == GetScores(entry.index, StoreTokenize(query))
             scored_docs == SortByScoreDesc([i \in 1..Len(entry.entries) |->
                                [score |-> scores[i], entry |-> entry.entries[i]]])
             kept == SelectSeq(Take(scored_docs, top_k * 2),
                               LAMBDA h : /\ h.score > 0
                                          /\ source_filter = None
                                              \/ h.entry.source = source_filter)
             documents == Take(kept, top_k)
         IN [i \in 1..Len(documents) |->
                [id |-> documents[i].entry.id, text |-> documents[i].entry.text,
                 user_id |-> documents[i].entry.user_id,
                 source |-> documents[i].entry.source,
                 bm25_score |-> documents[i].score]]

-----------------------------------------------------------------------------
(* The dense store on its own.  Every caller of these methods passes the   *)
(* id of an account, so requesters and owners range over Tenants.          *)

DenseInit ==
    /\ corpus = <<>>
    /\ tokenized_corpus = <<>>
    /\ bm25 = NoBM25
    /\ collection = <<>>
    /\ nextId = 0
    /\ BareEnv
    /\ last = [op |-> "init"]

StoreAdd ==
    \E texts \in TextLists, s \in Sources, u \in Tenants :
        LET documents == ChunkDocuments(<<[source |-> s, pieces |-> texts]>>)
        IN /\ nextId + Len(texts) <= MaxChunks
           /\ collection' = AddDocuments(collection, documents, u, nextId)
           /\ nextId' = nextId + Len(texts)
           /\ last' = [op |-> "add_documents", user_id |-> u,
                       result |-> AddedIds(documents, nextId)]
           /\ bm25_cache' = AddInvalidates(bm25_cache, documents, u)
           /\ UNCHANGED sparseVars
           /\ UNCHANGED <<snapshot, reranker_available, groq_client, writers>>

StoreDelete ==
    \E s \in Sources, u \in Tenants :
        /\ collection' = DeleteBySource(collection, s, u)
        /\ last' = [op |-> "delete_by_source", source |-> s, user_id |-> u,
                    before |-> collection,
                    result |-> DeletedCount(collection, s, u)]
        /\ bm25_cache' = DeleteInvalidates(bm25_cache, collection, s, u)
        /\ UNCHANGED <<sparseVars, nextId>>
        /\ UNCHANGED <<snapshot, reranker_available, groq_client, writers>>

\* One requester's searches for one query: every top_k, threshold and filter.
StoreSearch ==
    \E u \in Tenants, dist \in [DocTexts -> Distances] :
        /\ last' = [op |-> "search", user_id |-> u, dist |-> dist,
                    result |-> [k \in TopKs |-> [t \in Thresholds |->
                                 [f \in SourceFilters |->
                                    VectorStoreSearch(collection, dist, u, k, t, f)]]]]
        /\ UNCHANGED <<sparseVars, collection, nextId>>
        /\ UNCHANGED envVars

StoreGetChunks ==
    \E u \in Tenants :
        /\ last' = [op |-> "get_chunks_by_source", user_id |-> u,
                    result |-> [s \in Sources |-> GetChunksBySource(collection, s, u)]]
        /\ UNCHANGED <<sparseVars, collection, nextId>>
        /\ UNCHANGED envVars

StoreGetContext ==
    \E u \in Tenants, id \in 1..MaxChunks :
        /\ last' = [op |-> "get_chunk_with_context", user_id |-> u, chunk_id |-> id,
                    result |-> GetChunkWithContext(collection, id, u, 1)]
        /\ UNCHANGED <<sparseVars, collection, nextId>>
        /\ UNCHANGED envVars

DenseNext == StoreAdd \/ StoreDelete \/ StoreSearch \/ StoreGetChunks \/ StoreGetContext

DenseSpec == DenseInit /\ [][DenseNext]_vars

\* bm25_search: the tenant's index is built when the cache has none, and used.
StoreBm25Search ==
    \E u \in Tenants :
        LET cache == IF bm25_cache[u].cached THEN bm25_cache
                     ELSE [bm25_cache EXCEPT ![u] = BuildBm25Index(collection, u)]
        IN /\ bm25_cache' = cache
           /\ last' = [op |-> "bm25_search", user_id |-> u,
                       result |-> [q \in Queries |-> [k \in TopKs |->
                                    [f \in SourceFilters |->
                                       Bm25SearchCached(cache[u], q, k, f)]]]]
           /\ UNCHANGED <<sparseVars, collection, nextId>>
           /\ UNCHANGED <<snapshot, reranker_available, groq_client, writers>>

\* What the persistent collection may hold when the process starts: nothing, or
\* two chunks of one document, stored by an earlier process.
StoredCollections ==
    {<<>>,
     [i \in 1..2 |-> [id |-> 10 + i, text |-> TxtAb, user_id |-> "1", source |-> "docA",
                      chunk_index |-> i - 1, total_chunks |-> 2]]}

\* VectorStore.__init__: the collection as it is on disk, and an empty cache.
CacheInit ==
    /\ corpus = <<>>
    /\ tokenized_corpus = <<>>
    /\ bm25 = NoBM25
    /\ collection \in StoredCollections
    /\ nextId = 0
    /\ BareEnv
    /\ last = [op |-> "init"]

\* The dense store with its lexical cache: writes and lexical searches.
CacheNext == StoreAdd \/ StoreDelete \/ StoreBm25Search

CacheSpec == CacheInit /\ [][CacheNext]_vars

-----------------------------------------------------------------------------
(* Reciprocal rank fusion.  A fused score is a sum of terms 1 / (k + rank); *)
(* within one call every score is kept as an integer number of units of    *)
(* 1 / RRFScale, the least common multiple of the denominators that can    *)
(* occur, so sums and comparisons are exact.                               *)

RRF_K == 60

RECURSIVE Gcd(_, _)
Gcd(a, b) == IF b = 0 THEN a ELSE Gcd(b, a % b)

Lcm(a, b) == (a \div Gcd(a, b)) * b

RECURSIVE LcmRange(_, _)
LcmRange(lo, hi) == IF hi < lo THEN 1 ELSE Lcm(LcmRange(lo, hi - 1), hi)

Max(a, b) == IF a >= b THEN a ELSE b

\* Units per 1.0 for lists of at most n items.
RRFScale(n, k) == LcmRange(k + 1, k + n)

\* A contribution that counts ranks from 0.
RRFTerm_FromZero(scale, k, rank) == scale \div (k + rank - 1)

\* 1.0 / (k + rank), for the 1-based rank.
RRFTerm(scale, k, rank) == scale \div (k + rank)

\* item.get("id", item.get("text", "")[:100])
ItemId(item) ==
    IF "id" \in DOMAIN item THEN item.id
    ELSE IF "text" \in DOMAIN item THEN Take(item.text, 100)
    ELSE <<>>

WithField(item, name, value) ==
    [x \in DOMAIN item \cup {name} |-> IF x = name THEN value ELSE item[x]]

\* A fusion step that files every occurrence as a new item.
RRFAccumulate_NoDedup(acc, item, term) ==
    Append(acc, [id |-> ItemId(item), item |-> item, score |-> term])

\* One step of the loop: a new id is filed with its item, then the term is added.
RRFAccumulate(acc, item, term) ==
    IF \E j \in 1..Len(acc) : acc[j].id = ItemId(item)
    THEN LET j == CHOOSE j \in 1..Len(acc) : acc[j].id = ItemId(item)
         IN [acc EXCEPT ![j].score = @ + term]
    ELSE Append(acc, [id |-> ItemId(item), item |-> item, score |-> term])

\* The inner loop over one result list, from rank r on.
RECURSIVE RRFOverList(_, _, _, _, _)
RRFOverList(acc, result_list, r, scale, k) ==
    IF r > Len(result_list) THEN acc
    ELSE RRFOverList(RRFAccumulate(acc, result_list[r], RRFTerm(scale, k, r)),
                     result_list, r + 1, scale, k)

\* The outer loop over the result lists.
RECURSIVE RRFOverLists(_, _, _, _)
RRFOverLists(acc, result_lists, scale, k) ==
    IF result_lists = <<>> THEN acc
    ELSE RRFOverLists(RRFOverList(acc, Head(result_lists), 1, scale, k),
                      Tail(result_lists), scale, k)

RECURSIVE MaxLen(_)
MaxLen(lists) == IF lists = <<>> THEN 0 ELSE Max(Len(Head(lists)), MaxLen(Tail(lists)))

\* HybridRetriever.reciprocal_rank_fusion
ReciprocalRankFusion(result_lists, k) ==
    LET scale == RRFScale(MaxLen(result_lists), k)
        sorted == SortByScoreDesc(RRFOverLists(<<>>, result_lists, scale, k))
    IN [i \in 1..Len(sorted) |-> WithField(sorted[i].item, "rrf_score", sorted[i].score)]

-----------------------------------------------------------------------------
(* The fusion inside VectorStore.hybrid_search: the two lists are weighted, *)
(* items whose semantic similarity is under the minimum are dropped after  *)
(* the sort, and the fused score is returned as "similarity".  Weights are *)
(* in tenths.                                                              *)

\* doc_scores after the semantic loop, from rank r (0-based in the code) on.
RECURSIVE HybridSemanticLoop(_, _, _, _, _, _)
HybridSemanticLoop(acc, results, r, weight, scale, k) ==
    IF r > Len(results) THEN acc
    ELSE LET doc == results[r]
             term == weight * RRFTerm(scale, k, r)
             known == \E j \in 1..Len(acc) : acc[j].id = doc.id
             filed == IF known THEN acc
                      ELSE Append(acc, [id |-> doc.id, score |-> 0,
                                        semantic_similarity |-> doc.similarity,
                                        bm25_score |-> 0])
             j == CHOOSE j \in 1..Len(filed) : filed[j].id = doc.id
         IN HybridSemanticLoop(
                [filed EXCEPT ![j].score = @ + term,
                              ![j].semantic_similarity = doc.similarity],
                results, r + 1, weight, scale, k)

RECURSIVE HybridBm25Loop(_, _, _, _, _, _)
HybridBm25Loop(acc, results, r, weight, scale, k) ==
    IF r > Len(results) THEN acc
    ELSE LET doc == results[r]
             term == weight * RRFTerm(scale, k, r)
             known == \E j \in 1..Len(acc) : acc[j].id = doc.id
             filed == IF known THEN acc
                      ELSE Append(acc, [id |-> doc.id, score |-> 0,
                                        semantic_similarity |-> 0,
                                        bm25_score |-> 0])
             j == CHOOSE j \in 1..Len(filed) : filed[j].id = doc.id
         IN HybridBm25Loop(
                [filed EXCEPT ![j].score = @ + term,
                              ![j].bm25_score = doc.bm25_score],
                results, r + 1, weight, scale, k)

HybridSearchFuse(semantic_results, bm25_results, top_k, semantic_weight, bm25_weight, rrf_k, min_threshold) ==
    LET scale == RRFScale(Max(Len(semantic_results), Len(bm25_results)), rrf_k)
        doc_scores ==
            HybridBm25Loop(
                HybridSemanticLoop(<<>>, semantic_results, 1, semantic_weight, scale, rrf_k),
                bm25_results, 1, bm25_weight, scale, rrf_k)
        sorted_docs == SelectSeq(SortByScoreDesc(doc_scores),
                                 LAMBDA d : d.semantic_similarity >= min_threshold)
        top == Take(sorted_docs, top_k)
    IN [i \in 1..Len(top) |->
          [id |-> top[i].id, similarity |-> top[i].score,
           semantic_similarity |-> top[i].semantic_similarity,
           bm25_score |-> top[i].bm25_score]]

-----------------------------------------------------------------------------
(* Fusion on its own: the two result lists are any two lists of distinct   *)
(* chunks, the dense one in descending similarity.                         *)

FusionIds == 1..(MaxChunks + 1)

\* The lists of at most MaxChunks distinct ids.
IdLists ==
    {l \in UNION {[1..n -> FusionIds] : n \in 0..MaxChunks} :
        \A i, j \in 1..Len(l) : i # j => l[i] # l[j]}

\* A dense result list: the first `high` hits are close, the others are at the floor.
DenseList(ids, high) ==
    [i \in 1..Len(ids) |-> [id |-> ids[i], similarity |-> IF i <= high THEN 90 ELSE 25]]

SparseList(ids) ==
    [i \in 1..Len(ids) |-> [id |-> ids[i], bm25_score |-> Len(ids) - i + 1]]

Weights == {<<7, 3>>, <<5, 5>>, <<3, 7>>}

MinThresholds == {0, 30}

FusionInit ==
    /\ corpus = <<>>
    /\ tokenized_corpus = <<>>
    /\ bm25 = NoBM25
    /\ collection = <<>>
    /\ nextId = 0
    /\ BareEnv
    /\ \E d \in IdLists, sp \in IdLists :
          \E high \in 0..Len(d) :
              last = [op |-> "inputs", dense |-> DenseList(d, high),
                      sparse |-> SparseList(sp)]

FuseRRF ==
    /\ last' = [op |-> "rrf", dense |-> last.dense, sparse |-> last.sparse,
                result |-> ReciprocalRankFusion(<<last.dense, last.sparse>>, RRF_K)]
    /\ UNCHANGED <<sparseVars, collection, nextId>>
    /\ UNCHANGED envVars

\* The fusion of hybrid_search for one pair of weights: every top_k and minimum.
FuseWeighted ==
    \E w \in Weights :
        /\ last' = [op |-> "hybrid_fuse", dense |-> last.dense, sparse |-> last.sparse,
                    weights |-> w,
                    result |-> [k \in TopKs |-> [m \in MinThresholds |->
                        HybridSearchFuse(last.dense, last.sparse, k,
                                         w[1], w[2], RRF_K, m)]]]
        /\ UNCHANGED <<sparseVars, collection, nextId>>
        /\ UNCHANGED envVars

FusionNext == FuseRRF \/ FuseWeighted

FusionSpec == FusionInit /\ [][FusionNext]_vars

-----------------------------------------------------------------------------
(* HybridRetriever.search, the Reranker and QueryEngine._retrieve_and_rerank. *)

\* The dense list handed to fusion: twice top_k hits, already cut at the threshold.
HybridDenseResults(coll, dist, top_k, threshold, source_filter, user_id) ==
    VectorStoreSearch(coll, dist, user_id, top_k * 2, threshold, source_filter)

\* The sparse list handed to fusion: no source filter is passed on.
HybridSparseResults(idx, query, top_k, user_id) ==
    BM25Search(idx, query, top_k * 2, user_id)

\* A search that forgets to cut the fused list to top_k.
HybridRetrieverSearch_Uncut(idx, coll, dist, query, top_k, threshold, source_filter, user_id) ==
    ReciprocalRankFusion(
        <<HybridDenseResults(coll, dist, top_k, threshold, source_filter, user_id),
          HybridSparseResults(idx, query, top_k, user_id)>>, RRF_K)

HybridRetrieverSearch(idx, coll, dist, query, top_k, threshold, source_filter, user_id) ==
    LET dense_results == HybridDenseResults(coll, dist, top_k, threshold, source_filter, user_id)
        sparse_results == HybridSparseResults(idx, query, top_k, user_id)
        fused == ReciprocalRankFusion(<<dense_results, sparse_results>>, RRF_K)
    IN Take(fused, top_k)

RERANK_TOP_K == 5

\* What the rerank provider does with a call: it fails, or it scores every text.
Relevances == 1..2

ProviderError == [ok |-> FALSE]

\* The scores of two different texts differ.
RerankResponses ==
    {ProviderError} \cup
    {[ok |-> TRUE, relevance |-> r] :
        r \in {x \in [DocTexts -> Relevances] : \A a, b \in DocTexts : a # b => x[a] # x[b]}}

\* response.results: the top_n documents by relevance, each with its 0-based index.
RerankResults(documents, top_n, response) ==
    LET keyed == [i \in 1..Len(documents) |->
                    [score |-> response.relevance[documents[i].text], index |-> i - 1]]
    IN Take(SortByScoreDesc(keyed), top_n)

\* documents[index] of a Python list: a negative index counts from the end.
PyIndexRaises(documents, index) == index >= Len(documents) \/ index < 0 - Len(documents)

PyIndex(documents, index) ==
    IF index >= 0 THEN documents[index + 1] ELSE documents[Len(documents) + index + 1]

\* The loop over response.results raises IndexError at an index out of range.
ResultsRaise(documents, results) ==
    \E j \in 1..Len(results) : PyIndexRaises(documents, results[j].index)

\* The loop over response.results: a copy of each document named, with its score.
RerankedDocs(documents, results) ==
    [j \in 1..Len(results) |->
        WithField(WithField(PyIndex(documents, results[j].index),
                            "rerank_score", results[j].score),
                  "original_rank", results[j].index)]

\* Reranker.__init__: available once the key is set and cohere.Client was built.
RerankerInit(api_key, client_built) == api_key /\ client_built

\* A rerank step that does not ask whether the reranker is available.
RerankStep_Unchecked(available, chunks, use_reranking, response) ==
    IF use_reranking /\ chunks # <<>>
    THEN [chunks |-> chunks, reranked |-> TRUE]
    ELSE [chunks |-> chunks, reranked |-> FALSE]

\* A fallback that hands back every document.
RerankFallback_All(documents, top_k) == documents

\* documents[:top_k]
RerankFallback(documents, top_k) == Take(documents, top_k)

\* Reranker.rerank, given what client.rerank did: it raised, or it returned results.
RerankCall(available, documents, top_k, outcome) ==
    IF ~available \/ documents = <<>> THEN RerankFallback(documents, top_k)
    ELSE IF ~outcome.ok THEN RerankFallback(documents, top_k)
    ELSE IF ResultsRaise(documents, outcome.results) THEN RerankFallback(documents, top_k)
    ELSE RerankedDocs(documents, outcome.results)

\* Reranker.rerank with a provider that, when it answers, ranks by relevance.
Rerank(available, documents, top_k, response) ==
    RerankCall(available, documents, top_k,
               IF response.ok
               THEN [ok |-> TRUE,
                     results |-> RerankResults(documents, Min(top_k, Len(documents)),
                                               response)]
               ELSE response)

\* retrieve_k of _retrieve_and_rerank: twice top_k when a rerank will follow.
RetrieveK(available, top_k, use_reranking) ==
    IF use_reranking /\ available THEN top_k * 2 ELSE top_k

\* The retrieval step of _retrieve_and_rerank: hybrid unless the sparse index is empty.
RetrieveChunks(idx, coll, dist, question, retrieve_k, threshold, source_filter, user_id) ==
    IF ~IsEmpty(idx)
    THEN HybridRetrieverSearch(idx, coll, dist, question, retrieve_k,
                               threshold, source_filter, user_id)
    ELSE VectorStoreSearch(coll, dist, user_id, retrieve_k, threshold, source_filter)

\* The rerank step of _retrieve_and_rerank: (chunks, reranked).
RerankStep(available, chunks, use_reranking, response) ==
    IF use_reranking /\ available /\ chunks # <<>>
    THEN [chunks |-> Rerank(available, chunks, RERANK_TOP_K, response), reranked |-> TRUE]
    ELSE [chunks |-> chunks, reranked |-> FALSE]

\* QueryEngine._retrieve_and_rerank
RetrieveAndRerank(idx, coll, available, dist, response, question, top_k, threshold, source_filter, use_reranking, user_id) ==
    RerankStep(available,
               RetrieveChunks(idx, coll, dist, question,
                              RetrieveK(available, top_k, use_reranking),
                              threshold, source_filter, user_id),
               use_reranking, response)

-----------------------------------------------------------------------------
(* The ingestion and deletion handlers around the two indexes.             *)

\* bm25_items of upload_document and publish_article: zip(chunks, doc_ids).
Bm25Items(chunks, doc_ids, user_id) ==
    [i \in 1..Min(Len(chunks), Len(doc_ids)) |->
        [id |-> doc_ids[i], text |-> chunks[i].text,
         source |-> chunks[i].source, user_id |-> user_id]]

\* add_documents, then add_chunks and save: the stores after one ingestion.
Ingest(coll, idx, chunks, user_id, firstId) ==
    LET doc_ids == IF chunks = <<>> THEN <<>> ELSE AddedIds(chunks, firstId)
        index == AddChunks(idx, Bm25Items(chunks, doc_ids, user_id))
    IN [collection |-> AddDocuments(coll, chunks, user_id, firstId),
        index |-> index,
        snapshot |-> Save(index)]

SetStores(stores) ==
    /\ collection' = stores.collection
    /\ SetIndex(stores.index)
    /\ snapshot' = stores.snapshot

\* A document uploaded before the process had a sparse index: dense entries only.
PriorCollections ==
    {<<>>} \cup
    {AddDocuments(<<>>, ChunkDocuments(<<[source |-> s, pieces |-> texts]>>), u, 0) :
        texts \in TextLists \ {<<>>}, s \in Sources, u \in Tenants}

\* A first start: nothing stored, no snapshot.
RetrievalInit ==
    /\ corpus = <<>>
    /\ tokenized_corpus = <<>>
    /\ bm25 = NoBM25
    /\ collection = <<>>
    /\ nextId = 0
    /\ BareEnv
    /\ last = [op |-> "init"]

\* A fresh process over a persistent dense store, with no sparse snapshot.
ColdStartInit ==
    /\ corpus = <<>>
    /\ tokenized_corpus = <<>>
    /\ bm25 = NoBM25
    /\ collection \in PriorCollections
    /\ nextId = Len(collection)
    /\ snapshot = NoSnapshot
    /\ \E api_key \in BOOLEAN, client_built \in BOOLEAN :
          reranker_available = RerankerInit(api_key, client_built)
    /\ groq_client = FALSE
    /\ writers = NoWriters
    /\ bm25_cache = NoCache
    /\ last = [op |-> "init"]

\* POST /api/upload: a file without chunks is refused before anything is stored.
UploadDocument ==
    \E texts \in TextLists \ {<<>>}, s \in Sources, u \in Tenants :
        LET chunks == ChunkDocuments(<<[source |-> s, pieces |-> texts]>>)
        IN /\ nextId + Len(chunks) <= MaxChunks
           /\ SetStores(Ingest(collection, TheIndex, chunks, u, nextId))
           /\ nextId' = nextId + Len(chunks)
           /\ last' = [op |-> "upload_document"]
           /\ bm25_cache' = AddInvalidates(bm25_cache, chunks, u)
           /\ UNCHANGED <<reranker_available, groq_client, writers>>

\* POST /publish: the article is stored under its title.
PublishArticle ==
    \E texts \in TextLists, title \in Sources, u \in Tenants :
        LET chunks == ChunkDocuments(<<[source |-> title, pieces |-> texts]>>)
        IN /\ nextId + Len(chunks) <= MaxChunks
           /\ SetStores(Ingest(collection, TheIndex, chunks, u, nextId))
           /\ nextId' = nextId + Len(chunks)
           /\ last' = [op |-> "publish_article"]
           /\ bm25_cache' = AddInvalidates(bm25_cache, chunks, u)
           /\ UNCHANGED <<reranker_available, groq_client, writers>>

\* DELETE /api/sources/{source_name}
DeleteSource ==
    \E s \in Sources, u \in Tenants :
        /\ collection' = DeleteBySource(collection, s, u)
        /\ last' = [op |-> "delete_source", user_id |-> u, source |-> s,
                    deleted |-> DeletedCount(collection, s, u)]
        /\ bm25_cache' = DeleteInvalidates(bm25_cache, collection, s, u)
        /\ UNCHANGED <<sparseVars, nextId, snapshot, reranker_available, groq_client, writers>>

\* DELETE /articles/{slug}, for an article of this title.
DeleteArticle ==
    \E title \in Sources, u \in Tenants :
        /\ collection' = DeleteBySource(collection, title, u)
        /\ last' = [op |-> "delete_article", user_id |-> u, source |-> title,
                    deleted |-> DeletedCount(collection, title, u)]
        /\ bm25_cache' = DeleteInvalidates(bm25_cache, collection, title, u)
        /\ UNCHANGED <<sparseVars, nextId, snapshot, reranker_available, groq_client, writers>>

\* PUT /articles/{slug}: the old title's vectors are deleted, the new text published.
UpdateArticle ==
    \E texts \in TextLists, old \in Sources, title \in Sources, u \in Tenants :
        LET chunks == ChunkDocuments(<<[source |-> title, pieces |-> texts]>>)
        IN /\ nextId + Len(chunks) <= MaxChunks
           /\ SetStores(Ingest(DeleteBySource(collection, old, u), TheIndex,
                               chunks, u, nextId))
           /\ nextId' = nextId + Len(chunks)
           /\ last' = [op |-> "update_article", user_id |-> u, source |-> old,
                       deleted |-> DeletedCount(collection, old, u)]
           /\ bm25_cache' = AddInvalidates(DeleteInvalidates(bm25_cache, collection, old, u),
                                           chunks, u)
           /\ UNCHANGED <<reranker_available, groq_client, writers>>

\* The process starts again: get_components makes a new index and loads the snapshot.
Restart ==
    /\ SetIndex(Load(EmptyIndex, snapshot))
    /\ last' = [op |-> "restart"]
    /\ UNCHANGED <<collection, nextId, envVars>>

\* Reads leave both indexes alone, so the handlers are explored without them.
RetrievalNext ==
    \/ UploadDocument
    \/ PublishArticle
    \/ DeleteSource
    \/ DeleteArticle
    \/ UpdateArticle
    \/ Restart

RetrievalSpec == RetrievalInit /\ [][RetrievalNext]_vars

\* A handler runs when a request arrives and leaves nothing pending when it
\* returns (no background task); the one step that recurs by itself is the
\* restart of the process, which reloads the snapshot.
FairRetrievalSpec == RetrievalSpec /\ WF_vars(Restart)

-----------------------------------------------------------------------------
(* Searching what the uploads stored.  A search is recorded for every      *)
(* requester, embedding of the query, query, top_k, threshold and source   *)
(* filter at once.                                                         *)

Embeddings == [DocTexts -> Distances]

\* HybridRetriever.search
HybridSearch ==
    /\ \A q \in Queries : ~BM25SearchRaises(TheIndex, q)
    /\ last' = [op |-> "hybrid_search",
                dense |-> [u \in Tenants |-> [dist \in Embeddings |-> [k \in TopKs |->
                           [t \in Thresholds |-> [f \in SourceFilters |->
                    HybridDenseResults(collection, dist, k, t, f, u)]]]]],
                sparse |-> [u \in Tenants |-> [q \in Queries |-> [k \in TopKs |->
                    HybridSparseResults(TheIndex, q, k, u)]]],
                result |-> [u \in Tenants |-> [dist \in Embeddings |-> [q \in Queries |->
                            [k \in TopKs |-> [t \in Thresholds |-> [f \in SourceFilters |->
                    HybridRetrieverSearch(TheIndex, collection, dist, q, k, t, f, u)]]]]]]]
    /\ UNCHANGED <<sparseVars, collection, nextId, envVars>>

\* The provider is asked only when reranking is on and available.
ResponsesFor(use_reranking) ==
    IF use_reranking /\ reranker_available THEN RerankResponses ELSE {ProviderError}

\* What one call of _retrieve_and_rerank retrieves, and returns per rerank outcome.
RetrieveCall(dist, question, top_k, threshold, source_filter, use_reranking, user_id) ==
    LET retrieved == RetrieveChunks(TheIndex, collection, dist, question,
                                    RetrieveK(reranker_available, top_k, use_reranking),
                                    threshold, source_filter, user_id)
    IN [retrieved |-> retrieved,
        returned |-> [response \in ResponsesFor(use_reranking) |->
                        RerankStep(reranker_available, retrieved, use_reranking, response)]]

\* QueryEngine.retrieve
Retrieve ==
    /\ \A q \in Queries : ~BM25SearchRaises(TheIndex, q)
    /\ last' = [op |-> "retrieve",
                result |-> [u \in Tenants |-> [use_reranking \in BOOLEAN |->
                            [dist \in Embeddings |-> [q \in Queries |-> [k \in TopKs |->
                             [t \in Thresholds |-> [f \in SourceFilters |->
                    RetrieveCall(dist, q, k, t, f, use_reranking, u)]]]]]]]]
    /\ UNCHANGED <<sparseVars, collection, nextId, envVars>>

HybridNext == UploadDocument \/ HybridSearch \/ Retrieve

HybridSpec == ColdStartInit /\ [][HybridNext]_vars


-----------------------------------------------------------------------------
(* QueryRouter.  A query is the sequence of its whitespace-separated words, *)
(* without punctuation.  The patterns are regular expressions searched in  *)
(* the stripped query, ignoring case; they are matched here on words, and  *)
(* a word class lists the words that contain the pattern's alternative     *)
(* ("show" contains "how", "documents" starts with "do").  Confidence is   *)
(* in hundredths.                                                          *)

RouteTypes ==
    {"KNOWLEDGE", "META", "GREETING", "CLARIFICATION",
     "OUT_OF_SCOPE", "SUMMARY", "COMPARISON", "FOLLOW_UP"}

\* re.IGNORECASE and str.lower on a word.
CaseFold(w) ==
    CASE w = "Hello" -> "hello"
      [] w = "What" -> "what"
      [] w = "TLA" -> "tla"
      [] OTHER -> w

LowerQuery(q) == [i \in 1..Len(q) |-> CaseFold(q[i])]

\* q, from word i on, goes through the classes one word each.
FollowsAt(q, i, classes) ==
    /\ i + Len(classes) - 1 <= Len(q)
    /\ \A c \in 1..Len(classes) : q[i + c - 1] \in classes[c]

\* Somewhere in q, words of the classes follow each other directly.
Adjacent(q, classes) == \E i \in 1..Len(q) : FollowsAt(q, i, classes)

\* Words of the three classes occur in this order, anything in between.
InOrder(q, A, B, C) ==
    \E i, j, k \in 1..Len(q) : i < j /\ j < k /\ q[i] \in A /\ q[j] \in B /\ q[k] \in C

DocWords == {"document", "documents", "file", "files", "source", "sources"}

GreetingPhrases ==
    {h \o t : h \in {<<"hi">>, <<"hello">>, <<"hey">>, <<"howdy">>, <<"greetings">>,
                     <<"good", "morning">>, <<"good", "afternoon">>, <<"good", "evening">>},
              t \in {<<>>, <<"there">>}}
    \cup {<<"thanks">>, <<"thank", "you">>, <<"thx">>, <<"ty">>}
    \cup {<<"bye">>, <<"goodbye">>, <<"see", "you">>, <<"later">>}
    \cup {<<"how", "are", "you">>, <<"whats", "up">>, <<"sup">>}

\* GREETING_PATTERNS: each is anchored at both ends.
MatchesGreeting(q) == q \in GreetingPhrases

\* META_PATTERNS
MatchesMeta(q) ==
    \/ InOrder(q, {"what", "which", "list", "show", "display"}, DocWords,
               {"have", "uploaded", "available", "stored"})
    \/ \E i, j, k \in 1..Len(q) :
          /\ i < j /\ j < k
          /\ q[i] = "what" \/ FollowsAt(q, i, <<{"how"}, {"many"}>>)
          /\ q[j] \in {"document", "documents", "file", "files"}
          /\ FollowsAt(q, k, <<{"i"}, {"have"}>>)
    \/ q \in {<<v>> \o m \o <<d>> : v \in {"list", "show"}, m \in {<<>>, <<"my">>},
                                   d \in DocWords}
    \/ Adjacent(q, <<{"what"}, {"can", "do"}, {"you"},
                     {"do", "know", "have", "document", "documents"}>>)
    \/ Adjacent(q, <<{"your", "the"}, {"capabilities"}>>)

\* SUMMARY_PATTERNS
MatchesSummary(q) ==
    \/ Len(q) >= 2 /\ q[1] = "summarize"
    \/ \E m \in {<<>>, <<{"me"}>>}, a \in {<<>>, <<{"a"}>>} :
          FollowsAt(q, 1, <<{"give", "provide", "create"}>> \o m \o a \o <<{"summary"}>>)
    \/ \E w \in {<<>>, <<{"what"}, {"is"}, {"the"}>>} :
          FollowsAt(q, 1, w \o <<{"main", "key"},
                                 {"point", "points", "idea", "ideas",
                                  "takeaway", "takeaways"}>>)
    \/ Len(q) >= 1 /\ q[1] = "tldr"
    \/ Adjacent(q, <<{"summarize"}, {"this", "the", "that", "there"}>>)

\* COMPARISON_PATTERNS
MatchesComparison(q) ==
    \/ \E i, j \in 1..Len(q) :
          /\ q[i] = "compare"
          /\ j >= i + 2
          /\ q[j] \in {"and", "with", "to", "vs"}
          /\ j < Len(q)
    \/ Adjacent(q, <<{"difference", "differences"}, {"between", "of"}>>)
    \/ \E i, j \in 1..Len(q) :
          i < j /\ q[i] \in {"how", "what", "show"}
                /\ q[j] \in {"different", "similar", "compare"}
    \/ \E j \in 1..Len(q) : 1 < j /\ j < Len(q) /\ q[j] = "vs"

\* CLARIFICATION_PATTERNS: each is anchored at both ends and is one word.
MatchesClarification(q) ==
    q \in {<<w>> : w \in {"more", "detail", "details", "explain", "elaborate", "continue",
                          "yes", "no", "ok", "okay", "sure", "yep", "nope",
                          "what", "huh", "hmm"}}

\* A prefilter that looks at the comparison patterns before the meta patterns.
KeywordPrefilter_ComparisonFirst(query) ==
    LET q == LowerQuery(query)
    IN IF MatchesGreeting(q) THEN "GREETING"
       ELSE IF MatchesComparison(q) THEN "COMPARISON"
       ELSE IF MatchesMeta(q) THEN "META"
       ELSE IF MatchesSummary(q) THEN "SUMMARY"
       ELSE IF Len(q) <= 2 /\ MatchesClarification(q) THEN "CLARIFICATION"
       ELSE None

\* _keyword_prefilter: the first group that matches, in this order.
KeywordPrefilter(query) ==
    LET q == LowerQuery(query)
    IN IF MatchesGreeting(q) THEN "GREETING"
       ELSE IF MatchesMeta(q) THEN "META"
       ELSE IF MatchesSummary(q) THEN "SUMMARY"
       ELSE IF MatchesComparison(q) THEN "COMPARISON"
       ELSE IF Len(q) <= 2 /\ MatchesClarification(q) THEN "CLARIFICATION"
       ELSE None

\* An optional query: rewritten_query, corrected.
NoQuery == [some |-> FALSE, value |-> <<>>]

Some(q) == [some |-> TRUE, value |-> q]

\* chat_history: None, or a list of messages.
NoHistory == [given |-> FALSE, messages |-> <<>>]

Given(messages) == [given |-> TRUE, messages |-> messages]

\* not chat_history
Falsy(chat_history) == ~chat_history.given \/ chat_history.messages = <<>>

\* What a chat-completion call does: it is not made, it raises, or it answers.
NoCall == [called |-> FALSE, ok |-> FALSE]

Raised == [called |-> TRUE, ok |-> FALSE]

Answer(content, corrected) ==
    [called |-> TRUE, ok |-> TRUE, content |-> content, corrected |-> corrected]

\* The keys of route_map in the order of the dict.
RouteMapKeys ==
    <<"KNOWLEDGE", "META", "GREETING", "CLARIFICATION",
      "OUT_OF_SCOPE", "SUMMARY", "COMPARISON", "FOLLOW_UP">>

\* str.upper on a word of an answer.
UpperFold(w) ==
    CASE w = "meta" -> "META"
      [] w = "or" -> "OR"
      [] w = "unclear" -> "UNCLEAR"
      [] OTHER -> w

\* _parse_response on the words of the answer, in upper case: exact, then the
\* first key found.
ParseResponse(response) ==
    LET upper == [i \in 1..Len(response) |-> UpperFold(response[i])]
    IN IF Len(upper) = 1 /\ upper[1] \in RouteTypes THEN upper[1]
       ELSE IF \E n \in 1..Len(RouteMapKeys) : RouteMapKeys[n] \in Range(upper)
       THEN RouteMapKeys[CHOOSE n \in 1..Len(RouteMapKeys) :
                           /\ RouteMapKeys[n] \in Range(upper)
                           /\ \A m \in 1..(n - 1) : RouteMapKeys[m] \notin Range(upper)]
       ELSE "KNOWLEDGE"

\* A comparison that tells upper case from lower case.
IfDifferent_CaseSensitive(text, query) ==
    IF text.some /\ text.value # <<>> /\ text.value # query THEN text ELSE NoQuery

\* A text is used only when it is there and differs from the query, case aside.
IfDifferent(text, query) ==
    IF text.some /\ text.value # <<>> /\ LowerQuery(text.value) # LowerQuery(query)
    THEN text ELSE NoQuery

\* _rewrite_query
RewriteQuery(client, query, chat_history, outcome) ==
    IF ~client \/ Falsy(chat_history) THEN NoQuery
    ELSE IF ~outcome.ok THEN NoQuery
    ELSE IfDifferent(Some(outcome.content), query)

\* _classify_and_correct: (route_type, corrected)
ClassifyAndCorrect(client, query, outcome) ==
    IF ~client THEN [route_type |-> "KNOWLEDGE", corrected |-> NoQuery]
    ELSE IF ~outcome.ok THEN [route_type |-> "KNOWLEDGE", corrected |-> NoQuery]
    ELSE [route_type |-> ParseResponse(outcome.content),
          corrected |-> IfDifferent(outcome.corrected, query)]

RouteResult(route_type, confidence, rewritten_query) ==
    [route_type |-> route_type, confidence |-> confidence,
     rewritten_query |-> rewritten_query]

\* A router that is as sure of its default as of an answer.
NoHistoryConfidence_Sure(client) == 100

\* confidence=1.0 if self.groq_client else 0.5
NoHistoryConfidence(client) == IF client THEN 100 ELSE 50

\* classify
Classify(client, query, chat_history, rewrite, classification) ==
    IF KeywordPrefilter(query) # None
    THEN RouteResult(KeywordPrefilter(query), 90, NoQuery)
    ELSE IF Falsy(chat_history)
    THEN LET both == ClassifyAndCorrect(client, query, classification)
         IN RouteResult(both.route_type, NoHistoryConfidence(client), both.corrected)
    ELSE LET rewritten_query == RewriteQuery(client, query, chat_history, rewrite)
         IN IF ~client THEN RouteResult("KNOWLEDGE", 50, rewritten_query)
            ELSE IF ~classification.ok THEN RouteResult("KNOWLEDGE", 50, rewritten_query)
            ELSE RouteResult(ParseResponse(classification.content), 100, rewritten_query)

\* classify_sync
ClassifySync(client, query, classification) ==
    IF KeywordPrefilter(query) # None
    THEN RouteResult(KeywordPrefilter(query), 90, NoQuery)
    ELSE IF ~client THEN RouteResult("KNOWLEDGE", 50, NoQuery)
    ELSE IF ~classification.ok THEN RouteResult("KNOWLEDGE", 50, NoQuery)
    ELSE RouteResult(ParseResponse(classification.content), 100, NoQuery)

-----------------------------------------------------------------------------
(* The router on its own: with or without a provider, queries of every     *)
(* pattern group and of none, with and without history, and every outcome  *)
(* of the provider calls that are made.                                    *)

RouterQueries ==
    {<<"hello">>, <<"Hello", "there">>, <<"thank", "you">>,
     <<"list", "my", "documents">>, <<"What", "documents", "do", "i", "have">>,
     <<"what", "can", "you", "do">>,
     <<"summarize", "the", "notes">>, <<"summarize">>,
     <<"compare", "TLA", "and", "alloy">>, <<"tla", "vs", "alloy">>,
     <<"what", "documents", "have", "similar", "notes">>,
     <<"hi", "there">>, <<"more">>, <<"What">>, <<"explain", "TLA">>,
     <<"what", "is", "brahmacharya">>, <<"tell", "me", "about", "it">>}

ResolvedQuery == <<"tell", "me", "about", "tla">>

Histories ==
    {NoHistory, Given(<<>>),
     Given(<<[role |-> "user", content |-> <<"what", "is", "tla">>],
             [role |-> "assistant", content |-> <<"a", "language">>]>>)}

\* What the provider may answer to a classification.
Responses == {<<"KNOWLEDGE">>, <<"meta">>, <<"FOLLOW_UP">>, <<"unclear">>,
              <<"COMPARISON", "or", "META">>}

\* A router that rewrites before it looks at the patterns.
RewriteCalled_BeforePrefilter(client, query, chat_history) ==
    client /\ ~Falsy(chat_history)

\* classify reaches the provider call of _rewrite_query: no fast-path match,
\* history given, and a provider.
RewriteCalled(client, query, chat_history) ==
    KeywordPrefilter(query) = None /\ ~Falsy(chat_history) /\ client

\* classify reaches a classification call: no fast-path match, and a provider.
ClassificationCalled(client, query) == KeywordPrefilter(query) = None /\ client

RewriteOutcomes(query, chat_history) ==
    IF RewriteCalled(groq_client, query, chat_history)
    THEN {Raised} \cup {Answer(c, NoQuery) : c \in {query, LowerQuery(query), ResolvedQuery, <<>>}}
    ELSE {NoCall}

\* Only the call without history asks for a corrected query as well.
ClassificationOutcomes(query, chat_history) ==
    IF ClassificationCalled(groq_client, query)
    THEN {Raised} \cup
         {Answer(r, c) : r \in Responses,
                         c \in IF Falsy(chat_history)
                               THEN {NoQuery, Some(query), Some(LowerQuery(query)),
                                     Some(ResolvedQuery)}
                               ELSE {NoQuery}}
    ELSE {NoCall}

RouterInit ==
    /\ corpus = <<>>
    /\ tokenized_corpus = <<>>
    /\ bm25 = NoBM25
    /\ collection = <<>>
    /\ nextId = 0
    /\ snapshot = NoSnapshot
    /\ reranker_available = FALSE
    /\ groq_client \in BOOLEAN
    /\ writers = NoWriters
    /\ bm25_cache = NoCache
    /\ last = [op |-> "init"]

RouterClassify ==
    \E query \in RouterQueries, chat_history \in Histories :
        \E rewrite \in RewriteOutcomes(query, chat_history),
           classification \in ClassificationOutcomes(query, chat_history) :
            /\ last' = [op |-> "classify", query |-> query, chat_history |-> chat_history,
                        rewrite |-> rewrite, classification |-> classification,
                        result |-> Classify(groq_client, query, chat_history,
                                            rewrite, classification)]
            /\ UNCHANGED <<sparseVars, collection, nextId, envVars>>

RouterClassifySync ==
    \E query \in RouterQueries :
        \E classification \in ClassificationOutcomes(query, Given(<<>>)) :
            /\ classification.ok => ~classification.corrected.some
            /\ last' = [op |-> "classify_sync", query |-> query,
                        classification |-> classification,
                        result |-> ClassifySync(groq_client, query, classification)]
            /\ UNCHANGED <<sparseVars, collection, nextId, envVars>>

RouterNext == RouterClassify \/ RouterClassifySync

RouterSpec == RouterInit /\ [][RouterNext]_vars

-----------------------------------------------------------------------------
(* scripts/rebuild_bm25.py, run next to the uploads of the application.    *)
(* main calls vs.get_all_sources() and vs.get_chunks_by_source(source)     *)
(* without the user_id both methods require, so the first call raises      *)
(* TypeError and the script ends before it builds or saves anything.       *)

\* main of the script: the snapshot file after it, and whether it reached its
\* end.  The call on line 22 raises; lines 23 to 44 are not reached.
RebuildMain(idx, snap) == [snapshot |-> snap, completed |-> FALSE]

RebuildBm25 ==
    /\ snapshot' = RebuildMain(TheIndex, snapshot).snapshot
    /\ last' = [op |-> "rebuild_bm25", completed |-> RebuildMain(TheIndex, snapshot).completed]
    /\ UNCHANGED <<sparseVars, collection, nextId, reranker_available, groq_client,
                   writers, bm25_cache>>

RebuildNext == UploadDocument \/ RebuildBm25

RebuildSpec == RetrievalInit /\ [][RebuildNext]_vars

-----------------------------------------------------------------------------
(* RouteHandlers.  What a handler does with the query it is handed is      *)
(* recorded as the handler that runs and the query text it works on: the   *)
(* question it retrieves for and puts in its prompt, or the text it echoes. *)

\* A dispatcher that never looks at the rewritten query.
EffectiveQuery_Original(query, rewritten_query) == query

\* effective_query = rewritten_query or query
EffectiveQuery(query, rewritten_query) ==
    IF rewritten_query.some /\ rewritten_query.value # <<>>
    THEN rewritten_query.value ELSE query

\* RouteHandlers.handle
Handle(route_type, query, rewritten_query) ==
    LET effective_query == EffectiveQuery(query, rewritten_query)
    IN CASE route_type = "KNOWLEDGE" ->
                [handler |-> "handle_knowledge", query |-> effective_query]
         [] route_type = "META" -> [handler |-> "handle_meta", query |-> query]
         [] route_type = "GREETING" -> [handler |-> "handle_greeting", query |-> query]
         [] route_type = "CLARIFICATION" ->
                [handler |-> "handle_clarification", query |-> query]
         [] route_type = "OUT_OF_SCOPE" ->
                [handler |-> "handle_out_of_scope", query |-> query]
         [] route_type = "SUMMARY" ->
                [handler |-> "handle_summary", query |-> effective_query]
         [] route_type = "COMPARISON" ->
                [handler |-> "handle_comparison", query |-> effective_query]
         [] route_type = "FOLLOW_UP" ->
                [handler |-> "handle_follow_up", query |-> effective_query]
         [] OTHER -> [handler |-> "handle_knowledge", query |-> effective_query]

\* RouteHandlers.handle_stream, with a query engine.
HandleStream(route_type, query, rewritten_query) ==
    LET effective_query == EffectiveQuery(query, rewritten_query)
    IN IF route_type \in {"META", "CLARIFICATION", "OUT_OF_SCOPE"}
       THEN Handle(route_type, query, rewritten_query)
       ELSE IF route_type = "GREETING"
       THEN [handler |-> "_call_llm_stream", query |-> query]
       ELSE [handler |-> "query_engine.retrieve", query |-> effective_query]

\* The rewritten queries a route result may carry for a query: none, or a
\* text that differs from the query by more than case.
RewrittenQueries(query) ==
    {NoQuery} \cup {Some(q) : q \in {r \in {ResolvedQuery, <<"tla">>} :
                                        LowerQuery(r) # LowerQuery(query)}}

\* handle on a route decision
RouterHandle ==
    \E route_type \in RouteTypes, query \in RouterQueries :
        \E rewritten_query \in RewrittenQueries(query) :
            /\ last' = [op |-> "handle", route_type |-> route_type, query |-> query,
                        rewritten_query |-> rewritten_query,
                        result |-> Handle(route_type, query, rewritten_query)]
            /\ UNCHANGED <<sparseVars, collection, nextId, envVars>>

\* classify, then handle_stream on its result
RouterHandleStream ==
    \E query \in RouterQueries, chat_history \in Histories :
        \E rewrite \in RewriteOutcomes(query, chat_history),
           classification \in ClassificationOutcomes(query, chat_history) :
            LET route_result == Classify(groq_client, query, chat_history,
                                         rewrite, classification)
            IN /\ last' = [op |-> "handle_stream",
                           route_type |-> route_result.route_type, query |-> query,
                           rewritten_query |-> route_result.rewritten_query,
                           result |-> HandleStream(route_result.route_type, query,
                                                   route_result.rewritten_query)]
               /\ UNCHANGED <<sparseVars, collection, nextId, envVars>>

HandleNext == RouterHandle \/ RouterHandleStream

HandleSpec == RouterInit /\ [][HandleNext]_vars

-----------------------------------------------------------------------------
(* The reranker on its own: any list of documents, any top_k, and a        *)
(* provider that raises or returns any list of results, well-formed or not. *)

RerankDocs ==
    {<<>>} \cup {<<[id |-> i, text |-> TxtAb]>> : i \in 1..2}
    \cup {<<[id |-> i, text |-> TxtAb], [id |-> 3 - i, text |-> TxtBaAb]>> : i \in 1..2}

\* The indexes of a result: in range for two documents, and one past each end.
ResultIndexes == (0 - 3)..2

ResultLists ==
    UNION {[1..n -> [index : ResultIndexes, score : Relevances]] : n \in 0..2}

RerankOutcomes == {ProviderError} \cup {[ok |-> TRUE, results |-> r] : r \in ResultLists}

RerankInit ==
    /\ corpus = <<>>
    /\ tokenized_corpus = <<>>
    /\ bm25 = NoBM25
    /\ collection = <<>>
    /\ nextId = 0
    /\ snapshot = NoSnapshot
    /\ \E api_key \in BOOLEAN, client_built \in BOOLEAN :
          reranker_available = RerankerInit(api_key, client_built)
    /\ groq_client = FALSE
    /\ writers = NoWriters
    /\ bm25_cache = NoCache
    /\ last = [op |-> "init"]

RerankerRerank ==
    \E documents \in RerankDocs, top_k \in TopKs :
        \E outcome \in IF reranker_available /\ documents # <<>>
                       THEN RerankOutcomes ELSE {ProviderError} :
            /\ last' = [op |-> "rerank", documents |-> documents, top_k |-> top_k,
                        called |-> reranker_available /\ documents # <<>>,
                        outcome |-> outcome,
                        result |-> RerankCall(reranker_available, documents, top_k, outcome)]
            /\ UNCHANGED <<sparseVars, collection, nextId, envVars>>

RerankSpec == RerankInit /\ [][RerankerRerank]_vars

-----------------------------------------------------------------------------
(* load on its own: an index in any state, and a snapshot file that is     *)
(* absent, well-formed or damaged; load is called on the index as it is,   *)
(* or on the new index of a process that starts.                           *)

LoadIndexes ==
    {BuildFromChunks(EmptyIndex, MakeChunks(texts, "docA", "1", 0)) : texts \in TextLists}

SnapshotFiles ==
    {NoSnapshot} \cup
    {[Save(idx) EXCEPT !.damage = k] : idx \in LoadIndexes, k \in DamageKinds \cup {"none"}}

LoadInit ==
    /\ \E idx \in LoadIndexes :
          /\ corpus = idx.corpus
          /\ tokenized_corpus = idx.tokenized_corpus
          /\ bm25 = idx.bm25
          /\ nextId = Len(idx.corpus)
    /\ collection = <<>>
    /\ snapshot \in SnapshotFiles
    /\ reranker_available = FALSE
    /\ groq_client = FALSE
    /\ writers = NoWriters
    /\ bm25_cache = NoCache
    /\ last = [op |-> "init"]

IndexLoad ==
    /\ SetIndex(Load(TheIndex, snapshot))
    /\ last' = [op |-> "load", before |-> TheIndex, returned |-> LoadReturns(snapshot)]
    /\ UNCHANGED <<collection, nextId, envVars>>

LoadNext == IndexLoad \/ Restart

LoadSpec == LoadInit /\ [][LoadNext]_vars

\* load among the writes: build, add, remove and load in any order, next to a
\* snapshot file that is absent, well-formed or damaged.
MaintainNext == IndexBuild \/ IndexAdd \/ IndexRemove \/ IndexLoad

MaintainSpec == LoadInit /\ [][MaintainNext]_vars

-----------------------------------------------------------------------------
(* Ingestion in worker threads.  publish_article runs in a thread of its   *)
(* own per request (asyncio.to_thread) and ends with add_chunks and save   *)
(* on the one index of the process, while searches run on the event loop.  *)
(* No lock is taken, so a thread may be switched out between any two       *)
(* statements; each statement of add_chunks and save is a step.            *)

\* The bm25_items of one article: one chunk.
Batches == {<<t>> : t \in DocTexts}

\* open(filepath, "wb") leaves an empty file until the dump is written.
Truncated == [exists |-> TRUE, corpus |-> <<>>, tokenized |-> <<>>, damage |-> "unreadable"]

InFlight == {w \in Writers : writers[w].pc # "idle"}

At(w, pc, chunks) == [writers EXCEPT ![w] = [pc |-> pc, chunks |-> chunks]]

\* bm25_index.add_chunks(bm25_items) is entered; the ids came from add_documents.
BeginAdd(w) ==
    /\ writers[w].pc = "idle"
    /\ \E texts \in Batches, s \in Sources, u \in Tenants :
          /\ nextId + Len(texts) <= MaxChunks
          /\ writers' = At(w, "add_chunks", MakeChunks(texts, s, u, nextId))
          /\ nextId' = nextId + Len(texts)
    /\ last' = [op |-> "add_chunks", writer |-> w]
    /\ UNCHANGED <<sparseVars, collection, snapshot, reranker_available, groq_client, bm25_cache>>

\* self.corpus.extend(new_chunks)
ExtendCorpus(w) ==
    /\ writers[w].pc = "add_chunks"
    /\ corpus' = corpus \o writers[w].chunks
    /\ writers' = At(w, "extended_corpus", writers[w].chunks)
    /\ last' = [op |-> "corpus.extend", writer |-> w]
    /\ UNCHANGED <<tokenized_corpus, bm25, collection, nextId, snapshot,
                   reranker_available, groq_client, bm25_cache>>

\* self.tokenized_corpus.extend([...])
ExtendTokenized(w) ==
    /\ writers[w].pc = "extended_corpus"
    /\ tokenized_corpus' = tokenized_corpus \o TokenizeAll(writers[w].chunks)
    /\ writers' = At(w, "extended_tokenized", <<>>)
    /\ last' = [op |-> "tokenized_corpus.extend", writer |-> w]
    /\ UNCHANGED <<corpus, bm25, collection, nextId, snapshot,
                   reranker_available, groq_client, bm25_cache>>

\* if self.tokenized_corpus: self.bm25 = BM25Okapi(self.tokenized_corpus)
RebuildStatistics(w) ==
    /\ writers[w].pc = "extended_tokenized"
    /\ bm25' = IF tokenized_corpus # <<>> THEN BM25Okapi(tokenized_corpus) ELSE bm25
    /\ writers' = At(w, "save", <<>>)
    /\ last' = [op |-> "BM25Okapi", writer |-> w]
    /\ UNCHANGED <<corpus, tokenized_corpus, collection, nextId, snapshot,
                   reranker_available, groq_client, bm25_cache>>

\* with open(filepath, "wb") as f
SaveOpen(w) ==
    /\ writers[w].pc = "save"
    /\ snapshot' = Truncated
    /\ writers' = At(w, "opened", <<>>)
    /\ last' = [op |-> "open", writer |-> w]
    /\ UNCHANGED <<sparseVars, collection, nextId, reranker_available, groq_client, bm25_cache>>

\* pickle.dump of the two lists as they are now, and the file is closed.
SaveDump(w) ==
    /\ writers[w].pc = "opened"
    /\ snapshot' = Save(TheIndex)
    /\ writers' = At(w, "idle", <<>>)
    /\ last' = [op |-> "pickle.dump", writer |-> w]
    /\ UNCHANGED <<sparseVars, collection, nextId, reranker_available, groq_client, bm25_cache>>

\* A search on the event loop, at whatever point the threads are.
ConcurrentSearch ==
    /\ last' = [op |-> "search", seen |-> TheIndex, during |-> InFlight,
                raises |-> \E q \in Queries : BM25SearchRaises(TheIndex, q)]
    /\ UNCHANGED <<sparseVars, collection, nextId, envVars>>

ConcurrentNext ==
    \/ \E w \in Writers : BeginAdd(w)
    \/ \E w \in Writers : ExtendCorpus(w)
    \/ \E w \in Writers : ExtendTokenized(w)
    \/ \E w \in Writers : RebuildStatistics(w)
    \/ \E w \in Writers : SaveOpen(w)
    \/ \E w \in Writers : SaveDump(w)
    \/ ConcurrentSearch

ConcurrentSpec == SparseInit /\ [][ConcurrentNext]_vars

-----------------------------------------------------------------------------
(* Uploads of PDF files.  PDFProcessor.process_bytes gives one document    *)
(* per page that holds text, all under the name of the file, and           *)
(* chunk_documents chunks each of them.                                    *)

\* The pieces of the pages of a file: one or two pages.
PageLists == UNION {[1..n -> TextLists \ {<<>>}] : n \in 1..2}

ProcessBytes(pages, filename) ==
    [p \in 1..Len(pages) |-> [source |-> filename, page |-> p, pieces |-> pages[p]]]

\* POST /api/upload/document with a PDF file.
UploadPdf ==
    \E pages \in PageLists, s \in Sources, u \in Tenants :
        LET chunks == ChunkDocuments(ProcessBytes(pages, s))
        IN /\ nextId + Len(chunks) <= MaxChunks
           /\ SetStores(Ingest(collection, TheIndex, chunks, u, nextId))
           /\ nextId' = nextId + Len(chunks)
           /\ last' = [op |-> "upload_document", pages |-> Len(pages)]
           /\ bm25_cache' = AddInvalidates(bm25_cache, chunks, u)
           /\ UNCHANGED <<reranker_available, groq_client, writers>>

PdfNext == UploadPdf \/ DeleteSource

PdfSpec == RetrievalInit /\ [][PdfNext]_vars

-----------------------------------------------------------------------------
(* C1: sparse tenant isolation -- BM25Index.search under requester A,      *)
(* the no-tenant requester (user_id None) included, returns no chunk whose *)
(* tenant tag differs from A.                                              *)
C1_SparseTenantIsolation ==
    last.op = "search" =>
        \A q \in Queries, k \in TopKs :
            \A i \in 1..Len(last.result[q][k]) :
                last.result[q][k][i].user_id = last.user_id

-----------------------------------------------------------------------------
(* C2: dense tenant isolation -- search, get_chunks_by_source and          *)
(* get_chunk_with_context called under tenant A return only entries stored *)
(* under A, and get_chunk_with_context answers None for an id that another *)
(* tenant owns.                                                            *)

EntryOf(id) == CHOOSE e \in Range(collection) : e.id = id

StoredIds == {e.id : e \in Range(collection)}

OwnedBy(id, u) == id \in StoredIds /\ EntryOf(id).user_id = u

AllOwnedBy(items, u) == \A i \in 1..Len(items) : OwnedBy(items[i].id, u)

C2_DenseTenantIsolation ==
    /\ last.op = "search" =>
          \A k \in TopKs, t \in Thresholds, f \in SourceFilters :
              AllOwnedBy(last.result[k][t][f], last.user_id)
    /\ last.op = "get_chunks_by_source" =>
          \A s \in Sources : AllOwnedBy(last.result[s], last.user_id)
    /\ last.op = "get_chunk_with_context" =>
          /\ last.result.found =>
                /\ OwnedBy(last.result.id, last.user_id)
                /\ AllOwnedBy(last.result.prev_chunks, last.user_id)
                /\ AllOwnedBy(last.result.next_chunks, last.user_id)
          /\ (last.chunk_id \in StoredIds /\ ~OwnedBy(last.chunk_id, last.user_id))
                => last.result = NotFound

\* A search that returns a hit while another tenant stores the same text
\* under the same source name.
C2_Witness ==
    /\ last.op = "search"
    /\ \E k \in TopKs, t \in Thresholds, f \in Sources :
          \E i \in 1..Len(last.result[k][t][f]) :
              \E e \in Range(collection) :
                  /\ e.user_id # last.user_id
                  /\ e.text = last.result[k][t][f][i].text
                  /\ e.source = last.result[k][t][f][i].source

-----------------------------------------------------------------------------
(* C4: sparse remove correctness -- after remove_by_source(S, T), a search *)
(* under T returns no chunk of source S, and every chunk of another source *)
(* or of another tenant that was in the corpus is still there and still    *)
(* found by a search of its owner.                                         *)

InCorpus(c) == \E i \in 1..Len(corpus) : corpus[i] = c

\* A search by the chunk's owner, wide enough for the whole corpus, returns it.
Searchable(c) ==
    \A q \in Queries :
        Tokenize(q) # <<>> =>
            \E i \in 1..Len(BM25Search(TheIndex, q, Len(corpus), c.user_id)) :
                BM25Search(TheIndex, q, Len(corpus), c.user_id)[i].id = c.id

NoneOfSourceFound(source, user_id) ==
    \A q \in Queries, k \in 1..MaxChunks :
        \A i \in 1..Len(BM25Search(TheIndex, q, k, user_id)) :
            BM25Search(TheIndex, q, k, user_id)[i].source # source

\* The claim as stated: chunks of S that other tenants own survive every removal.
C4_RemoveAsClaimed ==
    last.op = "remove_by_source" =>
        /\ NoneOfSourceFound(last.source, last.user_id)
        /\ \A i \in 1..Len(last.before) :
              (last.before[i].source # last.source
                    \/ last.before[i].user_id # last.user_id)
                 => InCorpus(last.before[i]) /\ Searchable(last.before[i])

\* C4 as amended: chunks of S that other tenants own survive when a tenant
\* is given; a removal without a tenant (user_id None) removes S for everyone.
C4_RemoveBySource ==
    last.op = "remove_by_source" =>
        /\ NoneOfSourceFound(last.source, last.user_id)
        /\ \A i \in 1..Len(last.before) :
              (last.before[i].source # last.source
                    \/ (last.user_id # None /\ last.before[i].user_id # last.user_id))
                 => InCorpus(last.before[i]) /\ Searchable(last.before[i])
        /\ last.user_id = None =>
              \A i \in 1..Len(corpus) : corpus[i].source # last.source

\* Tenant T's chunk of S was removed while another tenant's chunk of S stayed.
C4_Witness ==
    /\ last.op = "remove_by_source"
    /\ last.user_id \in Tenants
    /\ \E i \in 1..Len(last.before) :
          /\ last.before[i].source = last.source
          /\ last.before[i].user_id = last.user_id
          /\ ~InCorpus(last.before[i])
    /\ \E i \in 1..Len(corpus) :
          /\ corpus[i].source = last.source
          /\ corpus[i].user_id # last.user_id

-----------------------------------------------------------------------------
(* C6: RRF scoring -- the fused score of an item is the sum, over the      *)
(* lists that contain it, of weight / (k + r) for its 1-based rank r in    *)
(* that list, with k = 60, and the output is in descending order of it.    *)

\* The 1-based rank of id in list, 0 when the list does not hold it.
RankIn(list, id) ==
    IF \E r \in 1..Len(list) : list[r].id = id
    THEN CHOOSE r \in 1..Len(list) : list[r].id = id
    ELSE 0

\* weight / (60 + rank) in units of 1 / scale; nothing for an absent item.
Contribution(list, id, weight, scale) ==
    IF RankIn(list, id) = 0 THEN 0
    ELSE (weight * scale) \div (60 + RankIn(list, id))

FusionScale == RRFScale(Max(Len(last.dense), Len(last.sparse)), 60)

Descending(scores) ==
    \A i, j \in 1..Len(scores) : i < j => scores[i] >= scores[j]

C6_RRFScoring ==
    /\ last.op = "rrf" =>
          /\ \A i \in 1..Len(last.result) :
                last.result[i].rrf_score =
                    Contribution(last.dense, last.result[i].id, 1, FusionScale)
                  + Contribution(last.sparse, last.result[i].id, 1, FusionScale)
          /\ Descending([i \in 1..Len(last.result) |-> last.result[i].rrf_score])
          /\ {last.result[i].id : i \in 1..Len(last.result)} =
                {last.dense[i].id : i \in 1..Len(last.dense)}
                  \cup {last.sparse[i].id : i \in 1..Len(last.sparse)}
    /\ last.op = "hybrid_fuse" =>
          \A k \in TopKs, m \in MinThresholds :
              LET out == last.result[k][m]
              IN /\ \A i \in 1..Len(out) :
                        out[i].similarity =
                            Contribution(last.dense, out[i].id, last.weights[1], FusionScale)
                          + Contribution(last.sparse, out[i].id, last.weights[2], FusionScale)
                 /\ Descending([i \in 1..Len(out) |-> out[i].similarity])

\* Both lists hold items, one of them in both, at different ranks.
C6_Witness ==
    /\ last.op = "rrf"
    /\ \E i \in 1..Len(last.result) :
          /\ RankIn(last.dense, last.result[i].id) > 0
          /\ RankIn(last.sparse, last.result[i].id) > 0
          /\ RankIn(last.dense, last.result[i].id) # RankIn(last.sparse, last.result[i].id)
    /\ \E i \in 1..Len(last.result) : RankIn(last.dense, last.result[i].id) = 0

-----------------------------------------------------------------------------
(* C7: fusion dedup -- an id present in both input lists appears exactly   *)
(* once in the fused output, with a score at least the larger of its two   *)
(* single-list contributions, and no id appears twice.                     *)

Occurrences(list, id) == Cardinality({i \in 1..Len(list) : list[i].id = id})

C7_FusionDedup ==
    last.op = "rrf" =>
        /\ \A i \in 1..Len(last.result) :
              Occurrences(last.result, last.result[i].id) = 1
        /\ \A id \in FusionIds :
              (RankIn(last.dense, id) > 0 /\ RankIn(last.sparse, id) > 0) =>
                  /\ Occurrences(last.result, id) = 1
                  /\ \A i \in 1..Len(last.result) :
                        last.result[i].id = id =>
                            last.result[i].rrf_score >=
                                Max(Contribution(last.dense, id, 1, FusionScale),
                                    Contribution(last.sparse, id, 1, FusionScale))

\* Two ids are in both lists.
C7_Witness ==
    /\ last.op = "rrf"
    /\ Cardinality({id \in FusionIds :
            RankIn(last.dense, id) > 0 /\ RankIn(last.sparse, id) > 0}) >= 2

-----------------------------------------------------------------------------
(* C3: index consistency on removal -- once a deletion (delete_source,     *)
(* article delete, or the delete step of an article update) of a (tenant,  *)
(* source) pair has completed, eventually the sparse index holds no chunk  *)
(* of the pair unless the dense store holds the pair again (it was         *)
(* ingested anew); without a new ingestion that is: neither holds it.      *)

DenseHolds(u, s) ==
    \E i \in 1..Len(collection) : collection[i].user_id = u /\ collection[i].source = s

SparseHolds(u, s) ==
    \E i \in 1..Len(corpus) : corpus[i].user_id = u /\ corpus[i].source = s

DeletionCompleted(u, s) ==
    /\ last.op \in {"delete_source", "delete_article", "update_article"}
    /\ last.user_id = u
    /\ last.source = s
    /\ last.deleted > 0

C3_IndexConsistency ==
    \A u \in Tenants, s \in Sources :
        DeletionCompleted(u, s) ~> (SparseHolds(u, s) => DenseHolds(u, s))

-----------------------------------------------------------------------------
(* C5: similarity floor -- every chunk of the dense list has similarity >= *)
(* threshold, in the list HybridRetriever.search hands to fusion and in    *)
(* what retrieval returns from the dense store alone; a stored chunk whose *)
(* similarity is below the threshold has no rank in the dense list, and if *)
(* it is in the fused list its score is its sparse contribution alone.     *)

AllAtLeast(list, threshold) ==
    \A i \in 1..Len(list) : list[i].similarity >= threshold

C5_SimilarityFloor ==
    /\ last.op = "hybrid_search" =>
          \A u \in Tenants, dist \in Embeddings, k \in TopKs,
             t \in Thresholds, f \in SourceFilters :
              LET dense == last.dense[u][dist][k][t][f]
              IN /\ AllAtLeast(dense, t)
                 /\ \A i \in 1..Len(dense) : 100 - dist[dense[i].text] >= t
                 /\ \A q \in Queries :
                       LET sparse == last.sparse[u][q][k]
                           fused == last.result[u][dist][q][k][t][f]
                           scale == RRFScale(Max(Len(dense), Len(sparse)), 60)
                       IN \A i \in 1..Len(fused) :
                             100 - dist[fused[i].text] < t =>
                                 /\ RankIn(dense, fused[i].id) = 0
                                 /\ fused[i].rrf_score =
                                        Contribution(sparse, fused[i].id, 1, scale)
    /\ (last.op = "retrieve" /\ IsEmpty(TheIndex)) =>
          \A u \in Tenants, r \in BOOLEAN, dist \in Embeddings, q \in Queries,
             k \in TopKs, t \in Thresholds, f \in SourceFilters :
              AllAtLeast(last.result[u][r][dist][q][k][t][f].retrieved, t)

\* A hit under the threshold is in the fused list through the sparse list,
\* next to a hit that passed.
C5_Witness ==
    /\ last.op = "hybrid_search"
    /\ \E u \in Tenants, dist \in Embeddings, q \in Queries, k \in TopKs,
          t \in Thresholds, f \in SourceFilters :
          LET fused == last.result[u][dist][q][k][t][f]
          IN /\ last.dense[u][dist][k][t][f] # <<>>
             /\ \E i \in 1..Len(fused) : 100 - dist[fused[i].text] < t

-----------------------------------------------------------------------------
(* C8: cold start -- with an empty sparse index HybridRetriever.search     *)
(* returns the dense results, in their order, cut to top_k, and retrieval  *)
(* returns the dense results for the number of chunks it retrieves; when   *)
(* the dense and the sparse list are both empty the result is empty.       *)

\* The fused items are the given dense items, one for one and in order.
SameAsDense(fused, dense) ==
    /\ Len(fused) = Len(dense)
    /\ \A i \in 1..Len(dense) :
          \A x \in DOMAIN dense[i] : x \in DOMAIN fused[i] /\ fused[i][x] = dense[i][x]

C8_ColdStart ==
    /\ last.op = "hybrid_search" =>
          \A u \in Tenants, dist \in Embeddings, q \in Queries, k \in TopKs,
             t \in Thresholds, f \in SourceFilters :
              LET fused == last.result[u][dist][q][k][t][f]
                  dense == last.dense[u][dist][k][t][f]
              IN /\ IsEmpty(TheIndex) =>
                        /\ SameAsDense(fused, Take(dense, k))
                        /\ SameAsDense(fused, VectorStoreSearch(collection, dist, u, k, t, f))
                 /\ (dense = <<>> /\ last.sparse[u][q][k] = <<>>) => fused = <<>>
    /\ (last.op = "retrieve" /\ IsEmpty(TheIndex)) =>
          \A u \in Tenants, r \in BOOLEAN, dist \in Embeddings, q \in Queries,
             k \in TopKs, t \in Thresholds, f \in SourceFilters :
              SameAsDense(last.result[u][r][dist][q][k][t][f].retrieved,
                          VectorStoreSearch(collection, dist, u,
                                            RetrieveK(reranker_available, k, r), t, f))

\* The sparse index is empty and the dense list is longer than top_k.
C8_Witness ==
    /\ last.op = "hybrid_search"
    /\ IsEmpty(TheIndex)
    /\ \E u \in Tenants, dist \in Embeddings, q \in Queries, k \in TopKs,
          t \in Thresholds, f \in SourceFilters :
          /\ Len(last.dense[u][dist][k][t][f]) > k
          /\ Len(last.result[u][dist][q][k][t][f]) = k

-----------------------------------------------------------------------------
(* C9: router fallback -- as claimed: with no provider configured, classify *)
(* and classify_sync return KNOWLEDGE with confidence <= 0.5 for every     *)
(* query and history.                                                      *)

Classified == last.op \in {"classify", "classify_sync"}

C9_AlwaysKnowledge ==
    (Classified /\ ~groq_client) =>
        /\ last.result.route_type = "KNOWLEDGE"
        /\ last.result.confidence <= 50

(* C9, amended: with no provider configured no provider call is made; a    *)
(* query that matches a fast-path pattern gets the matched intent with     *)
(* confidence 0.9, every other query gets KNOWLEDGE with confidence 0.5    *)
(* and no rewritten query, whatever the history.                           *)
C9_RouterFallback ==
    (Classified /\ ~groq_client) =>
        /\ ~last.classification.called
        /\ last.op = "classify" => ~last.rewrite.called
        /\ ~last.result.rewritten_query.some
        /\ KeywordPrefilter(last.query) = None =>
              /\ last.result.route_type = "KNOWLEDGE"
              /\ last.result.confidence = 50
        /\ KeywordPrefilter(last.query) # None =>
              /\ last.result.route_type = KeywordPrefilter(last.query)
              /\ last.result.confidence = 90

\* No provider, history given, and a query no pattern matches.
C9_Witness ==
    /\ last.op = "classify"
    /\ ~groq_client
    /\ ~Falsy(last.chat_history)
    /\ KeywordPrefilter(last.query) = None
    /\ last.result.route_type = "KNOWLEDGE"

-----------------------------------------------------------------------------
(* C10: slow-path provider error -- when no fast-path pattern matches and  *)
(* the classification call raises, classify returns KNOWLEDGE with         *)
(* confidence 0.5, with chat history and without.                          *)

ClassificationFailed ==
    /\ last.op = "classify"
    /\ KeywordPrefilter(last.query) = None
    /\ last.classification.called
    /\ ~last.classification.ok

C10_SlowPathError ==
    ClassificationFailed =>
        /\ last.result.route_type = "KNOWLEDGE"
        /\ last.result.confidence = 50

-----------------------------------------------------------------------------
(* C11: fast path -- whenever the query matches one of the pattern rules,  *)
(* classify returns the matched intent with confidence 0.9 and makes no    *)
(* provider call, neither a rewrite nor a classification, with chat        *)
(* history and without; 'hi there' yields GREETING.                        *)
C11_FastPath ==
    /\ KeywordPrefilter(<<"hi", "there">>) = "GREETING"
    /\ (last.op = "classify" /\ KeywordPrefilter(last.query) # None) =>
          /\ last.result.route_type = KeywordPrefilter(last.query)
          /\ last.result.confidence = 90
          /\ ~last.rewrite.called
          /\ ~last.classification.called

\* 'hi there' with a provider configured and chat history supplied.
C11_Witness ==
    /\ last.op = "classify"
    /\ groq_client
    /\ ~Falsy(last.chat_history)
    /\ last.query = <<"hi", "there">>
    /\ last.result.route_type = "GREETING"

-----------------------------------------------------------------------------
(* C12: coreference rewrite trigger -- classify issues a rewrite call only *)
(* when chat history is supplied and the query holds a referential         *)
(* expression (a pronoun, "the document", "above/previous/earlier"); a     *)
(* query with history and no such expression is never sent for rewriting.  *)

ReferentialWords ==
    {"it", "its", "that", "this", "these", "those", "they", "them",
     "he", "she", "him", "her", "above", "previous", "earlier"}

Referential(query) ==
    \/ \E i \in 1..Len(query) : CaseFold(query[i]) \in ReferentialWords
    \/ Adjacent(LowerQuery(query), <<{"the"}, {"document", "file"}>>)

C12_RewriteTrigger ==
    (last.op = "classify" /\ last.rewrite.called) =>
        /\ ~Falsy(last.chat_history)
        /\ Referential(last.query)

-----------------------------------------------------------------------------
(* C13: rewrite no-op guard -- in every result of classify the rewritten   *)
(* query is present only if it differs, case aside, from the query; when   *)
(* the provider returns the text of the query, or the rewrite call fails,  *)
(* there is none.                                                          *)

SameText(a, b) == LowerQuery(a) = LowerQuery(b)

-----------------------------------------------------------------------------
(* C14: reranker failure fallback -- when the provider call fails (it      *)
(* raises, or its response names a result index out of range), rerank      *)
(* returns exactly the first top_k input documents in their order, none    *)
(* carrying a rerank_score.                                                *)

RerankFailed ==
    /\ last.op = "rerank"
    /\ last.called
    /\ ~last.outcome.ok \/ ResultsRaise(last.documents, last.outcome.results)

C14_RerankFallback ==
    RerankFailed =>
        /\ Len(last.result) = Min(last.top_k, Len(last.documents))
        /\ \A i \in 1..Len(last.result) :
              /\ last.result[i] = last.documents[i]
              /\ "rerank_score" \notin DOMAIN last.result[i]

\* A response whose second result is out of range, for two documents and top_k 1.
C14_Witness ==
    /\ RerankFailed
    /\ last.outcome.ok
    /\ Len(last.outcome.results) = 2
    /\ ~PyIndexRaises(last.documents, last.outcome.results[1].index)
    /\ Len(last.documents) = 2
    /\ last.top_k = 1
    /\ Len(last.result) = 1

-----------------------------------------------------------------------------
(* C15: sparse search excludes non-matches -- no chunk returned by         *)
(* BM25Index.search has a score <= 0, and a query whose tokens are in no   *)
(* document of the requester returns the empty list.                       *)

\* No chunk the requester may see holds a token of the query.
MatchesNothing(q, u) ==
    \A i \in 1..Len(corpus) :
        ~SearchSkips(corpus[i], u) =>
            Range(Tokenize(q)) \cap Range(Tokenize(corpus[i].text)) = {}

C15_PositiveScores ==
    last.op = "search" =>
        \A q \in Queries, k \in TopKs :
            /\ \A i \in 1..Len(last.result[q][k]) : last.result[q][k][i].bm25_score > 0
            /\ MatchesNothing(q, last.user_id) => last.result[q][k] = <<>>

-----------------------------------------------------------------------------
(* C16: sparse search ranking -- BM25Index.search returns at most top_k    *)
(* chunks, under a tenant only chunks of that tenant, each with the score  *)
(* the statistics give it, in non-increasing order of score, and no chunk  *)
(* of the requester that is left out has a strictly higher score than a    *)
(* returned one.                                                           *)

PositionOf(id) == CHOOSE i \in 1..Len(corpus) : corpus[i].id = id

ScoreAt(q, i) == GetScores(bm25, Tokenize(q))[i]

ReturnedIds(r) == {r[i].id : i \in 1..Len(r)}

LeftOut(r, u) ==
    {i \in 1..Len(corpus) : ~SearchSkips(corpus[i], u) /\ corpus[i].id \notin ReturnedIds(r)}

Ranked(q, k, u, r) ==
    /\ Len(r) <= k
    /\ Truthy(u) => \A i \in 1..Len(r) : r[i].user_id = u
    /\ \A i \in 1..Len(r) :
          /\ r[i].id \in {corpus[j].id : j \in 1..Len(corpus)}
          /\ r[i].bm25_score = ScoreAt(q, PositionOf(r[i].id))
    /\ \A i \in 1..(Len(r) - 1) : r[i].bm25_score >= r[i + 1].bm25_score
    /\ \A i \in 1..Len(r) : \A j \in LeftOut(r, u) : ScoreAt(q, j) <= r[i].bm25_score

-----------------------------------------------------------------------------
(* C17: rebuild idempotence -- build_from_chunks(chunks) called again with *)
(* the same chunks leaves the index as the first call left it, so every    *)
(* search gives the same result; and a build replaces the corpus that was  *)
(* there: searches see the chunks of the build and nothing else.           *)

SameSearches(a, b) ==
    \A u \in UserIds, q \in Queries, k \in TopKs :
        /\ ~BM25SearchRaises(a, q)
        /\ ~BM25SearchRaises(b, q)
        /\ BM25Search(a, q, k, u) = BM25Search(b, q, k, u)

C17_RebuildIdempotent ==
    last.op = "build_from_chunks" =>
        /\ BuildFromChunks(TheIndex, last.chunks) = TheIndex
        /\ SameSearches(BuildFromChunks(TheIndex, last.chunks), TheIndex)
        /\ corpus = last.chunks
        /\ SameSearches(TheIndex, BuildFromChunks(EmptyIndex, last.chunks))

\* A build of one chunk over an index that held another.
C17_Witness ==
    /\ last.op = "build_from_chunks"
    /\ last.before.corpus # <<>>
    /\ last.chunks # <<>>
    /\ \E q \in Queries : BM25Search(TheIndex, q, 1, None) # <<>>

-----------------------------------------------------------------------------
(* C18: snapshot load failure -- when no snapshot exists or the snapshot   *)
(* is corrupt (unreadable, or missing one of its parts), load returns      *)
(* False and leaves the index exactly as it was before the call: empty on  *)
(* a process that starts, never partially updated.                         *)
C18_LoadFailure ==
    /\ last.op = "load" =>
          /\ last.returned <=> (snapshot.exists /\ snapshot.damage = "none")
          /\ ~last.returned => TheIndex = last.before
    /\ (last.op = "restart" /\ ~LoadReturns(snapshot)) => TheIndex = EmptyIndex

-----------------------------------------------------------------------------
(* C19: atomic reader visibility -- a search that runs while add_chunks is *)
(* at work in a worker thread sees the index as it was before the write or *)
(* as it is after it: corpus, tokenized corpus and statistics never        *)
(* disagree in length or content, and the search does not fail.            *)

\* The three fields of an index describe the same chunks.
Coherent(idx) ==
    /\ idx.tokenized_corpus = TokenizeAll(idx.corpus)
    /\ idx.corpus # <<>> => idx.bm25 = BM25Okapi(idx.tokenized_corpus)

C19_AtomicReaders ==
    last.op = "search" =>
        /\ Coherent(last.seen)
        /\ ~last.raises

-----------------------------------------------------------------------------
(* C20: writer serialization -- add_chunks and the save that follows never *)
(* overlap with those of another request; the snapshot file, whenever it   *)
(* is complete, is the image of a coherent index; and when no writer is at *)
(* work every batch added is in the corpus, the index is coherent and the  *)
(* file is its image.                                                      *)

CorpusIds == {corpus[i].id : i \in 1..Len(corpus)}

C20_WriterSerialization ==
    /\ Cardinality(InFlight) <= 1
    /\ (snapshot.exists /\ snapshot.damage = "none") =>
          snapshot.tokenized = TokenizeAll(snapshot.corpus)
    /\ InFlight = {} =>
          /\ \A id \in 1..nextId : id \in CorpusIds
          /\ Coherent(TheIndex)
          /\ nextId > 0 => snapshot = Save(TheIndex)

-----------------------------------------------------------------------------
(* C21: sparse read-your-writes -- as claimed: once add_chunks or          *)
(* build_from_chunks has returned, a search by the tenant of a new chunk,  *)
(* with any top_k, for a query that matches the new chunk and no other     *)
(* chunk the tenant sees, returns the new chunk.                           *)

Written == last.op \in {"add_chunks", "build_from_chunks"}

Matches(q, chunk) == Range(Tokenize(q)) \cap Range(Tokenize(chunk.text)) # {}

MatchesOnly(q, chunk, u) ==
    /\ Matches(q, chunk)
    /\ \A i \in 1..Len(corpus) :
          (corpus[i].id # chunk.id /\ ~SearchSkips(corpus[i], u)) => ~Matches(q, corpus[i])

-----------------------------------------------------------------------------
(* C22: the snapshot tracks the index -- after every completed write batch *)
(* of an ingestion handler (add_chunks, then save), loading the snapshot   *)
(* into a new index succeeds and gives the corpus and the tokenized corpus *)
(* of the index in memory, hence the same result for every search.         *)

Ingested == last.op \in {"upload_document", "publish_article", "update_article"}

C22_SnapshotTracksIndex ==
    Ingested =>
        /\ LoadReturns(snapshot)
        /\ Load(EmptyIndex, snapshot).corpus = corpus
        /\ Load(EmptyIndex, snapshot).tokenized_corpus = tokenized_corpus
        /\ SameSearches(Load(EmptyIndex, snapshot), TheIndex)

\* A second batch was written, by another tenant than the first.
C22_Witness ==
    /\ Ingested
    /\ Len(corpus) = 2
    /\ corpus[1].user_id # corpus[2].user_id
    /\ snapshot.exists

-----------------------------------------------------------------------------
(* C23: chunk position invariant -- for every (tenant, source) pair that   *)
(* the dense store holds, the chunk_index values of its entries are        *)
(* exactly 0 .. total_chunks - 1, each once; also for a file of several    *)
(* pages and for a source ingested more than once.                         *)

EntriesOf(u, s) == {e \in Range(collection) : e.user_id = u /\ e.source = s}

C23_ChunkPositions ==
    \A u \in Tenants, s \in Sources :
        \A e \in EntriesOf(u, s) :
            /\ {x.chunk_index : x \in EntriesOf(u, s)} = 0..(e.total_chunks - 1)
            /\ Cardinality(EntriesOf(u, s)) = e.total_chunks

-----------------------------------------------------------------------------
(* C24: dense remove -- delete_by_source(source, tenant) returns the       *)
(* number of entries stored for that (tenant, source) before the call;     *)
(* afterwards get_chunks_by_source(source, tenant) is empty, the entries   *)
(* of every other pair are as they were, and when nothing matches it       *)
(* returns 0 and changes nothing.                                          *)

StoredFor(coll, u, s) == {e \in Range(coll) : e.user_id = u /\ e.source = s}

C24_DenseRemove ==
    last.op = "delete_by_source" =>
        /\ last.result = Cardinality(StoredFor(last.before, last.user_id, last.source))
        /\ GetChunksBySource(collection, last.source, last.user_id) = <<>>
        /\ StoredFor(collection, last.user_id, last.source) = {}
        /\ \A u \in Tenants, s \in Sources :
              (u # last.user_id \/ s # last.source) =>
                  StoredFor(collection, u, s) = StoredFor(last.before, u, s)
        /\ Range(collection) \subseteq Range(last.before)
        /\ last.result = 0 => collection = last.before

\* An entry is removed while another tenant keeps its entry of the same source.
C24_Witness ==
    /\ last.op = "delete_by_source"
    /\ last.result = 1
    /\ \E u \in Tenants : u # last.user_id /\ StoredFor(collection, u, last.source) # {}

-----------------------------------------------------------------------------
(* C25: the reranker is optional -- it is available only when the key is   *)
(* set and the client was built; when it is not available, retrieval asks  *)
(* the provider nothing, retrieves top_k chunks and returns them as they   *)
(* were retrieved with reranked = false, and rerank itself returns the     *)
(* first top_k of its documents.                                           *)

C25_OptionalReranker ==
    /\ \A api_key \in BOOLEAN, client_built \in BOOLEAN :
          RerankerInit(api_key, client_built) => (api_key /\ client_built)
    /\ \A documents \in RerankDocs, top_k \in TopKs, outcome \in RerankResponses :
          Rerank(FALSE, documents, top_k, outcome) = Take(documents, top_k)
    /\ (last.op = "retrieve" /\ ~reranker_available) =>
          \A u \in Tenants, r \in BOOLEAN, dist \in Embeddings, q \in Queries,
             k \in TopKs, t \in Thresholds, f \in SourceFilters :
              LET call == last.result[u][r][dist][q][k][t][f]
              IN /\ DOMAIN call.returned = {ProviderError}
                 /\ call.returned[ProviderError].chunks = call.retrieved
                 /\ ~call.returned[ProviderError].reranked
                 /\ Len(call.retrieved) <= k

\* Reranking was asked for without a reranker, and two chunks were retrieved.
C25_Witness ==
    /\ last.op = "retrieve"
    /\ ~reranker_available
    /\ \E u \in Tenants, dist \in Embeddings, q \in Queries, k \in TopKs,
          t \in Thresholds, f \in SourceFilters :
          Len(last.result[u][TRUE][dist][q][k][t][f].retrieved) = 2

-----------------------------------------------------------------------------
(* C26: original and rewritten query -- for every route decision the       *)
(* handlers that retrieve (KNOWLEDGE, SUMMARY, COMPARISON, FOLLOW_UP) work *)
(* on the rewritten query when the decision carries one and on the         *)
(* original query otherwise; the handlers that echo (CLARIFICATION, META,  *)
(* GREETING, OUT_OF_SCOPE) always work on the original query.              *)

RetrievalRoutes == {"KNOWLEDGE", "SUMMARY", "COMPARISON", "FOLLOW_UP"}

C26_EffectiveQuery ==
    last.op \in {"handle", "handle_stream"} =>
        /\ last.route_type \in RetrievalRoutes =>
              last.result.query = IF last.rewritten_query.some
                                  THEN last.rewritten_query.value ELSE last.query
        /\ last.route_type \in RouteTypes \ RetrievalRoutes =>
              last.result.query = last.query

\* The router rewrote the query, and the stream retrieves for the rewritten one.
C26_Witness ==
    /\ last.op = "handle_stream"
    /\ last.route_type = "FOLLOW_UP"
    /\ last.rewritten_query.some
    /\ last.result.query # last.query

-----------------------------------------------------------------------------
(* C27: fast-path rule order -- the pattern groups are looked at in the    *)
(* order greeting, meta, summary, comparison, clarification, and the first *)
(* group that matches decides the route, with confidence 0.9: a query that *)
(* matches a meta and a comparison pattern is META; the clarification      *)
(* patterns decide only for queries of at most two words; and "compare X   *)
(* and Y" is COMPARISON.                                                   *)

FastPath(result, route_type) == result.route_type = route_type /\ result.confidence = 90

C27_RuleOrder ==
    /\ KeywordPrefilter(<<"compare", "X", "and", "Y">>) = "COMPARISON"
    /\ last.op = "classify" =>
          LET q == LowerQuery(last.query)
              greeting == MatchesGreeting(q)
              meta == MatchesMeta(q)
              summary == MatchesSummary(q)
              comparison == MatchesComparison(q)
          IN /\ greeting => FastPath(last.result, "GREETING")
             /\ (meta /\ ~greeting) => FastPath(last.result, "META")
             /\ (summary /\ ~meta /\ ~greeting) => FastPath(last.result, "SUMMARY")
             /\ (comparison /\ ~summary /\ ~meta /\ ~greeting) =>
                    FastPath(last.result, "COMPARISON")
             /\ FastPath(last.result, "CLARIFICATION") =>
                    (Len(q) <= 2 /\ MatchesClarification(q))
             /\ (MatchesClarification(q) /\ Len(q) <= 2
                    /\ ~comparison /\ ~summary /\ ~meta /\ ~greeting) =>
                    FastPath(last.result, "CLARIFICATION")
             /\ last.query = <<"compare", "TLA", "and", "alloy">> =>
                    FastPath(last.result, "COMPARISON")

\* A query that matches a meta pattern and a comparison pattern was classified.
C27_Witness ==
    /\ last.op = "classify"
    /\ MatchesMeta(LowerQuery(last.query))
    /\ MatchesComparison(LowerQuery(last.query))
    /\ last.result.route_type = "META"

-----------------------------------------------------------------------------
(* C28: structure of the sparse index -- after any sequence of completed   *)
(* build_from_chunks, add_chunks, remove_by_source and load calls, whether *)
(* a load succeeded or failed, tokenized_corpus is the tokenization of     *)
(* corpus entry by entry (so both have one length), and when the corpus is *)
(* not empty the statistics are those of the current tokenized corpus.     *)
C28_IndexStructure ==
    /\ Len(tokenized_corpus) = Len(corpus)
    /\ \A i \in 1..Len(corpus) : tokenized_corpus[i] = Tokenize(corpus[i].text)
    /\ corpus # <<>> => bm25 = BM25Okapi(tokenized_corpus)

-----------------------------------------------------------------------------
(* C29: freshness of the per-tenant lexical cache -- after any sequence of *)
(* add_documents and delete_by_source, the index bm25_search uses for a    *)
(* tenant is the one built from the chunks stored for that tenant now, so  *)
(* a search returns what a search over a newly built index returns, and    *)
(* only chunks that are stored for the tenant; and a tenant's cache entry  *)
(* is dropped or changed only by that tenant's own write or search.        *)

CacheFresh ==
    \A u \in Tenants : bm25_cache[u].cached => bm25_cache[u] = BuildBm25Index(collection, u)

FreshResults ==
    last.op = "bm25_search" =>
        \A q \in Queries, k \in TopKs, f \in SourceFilters :
            /\ last.result[q][k][f] =
                  Bm25SearchCached(BuildBm25Index(collection, last.user_id), q, k, f)
            /\ AllOwnedBy(last.result[q][k][f], last.user_id)

OthersKept ==
    \A v \in Tenants :
        bm25_cache'[v] # bm25_cache[v] =>
            /\ last'.op \in {"add_documents", "delete_by_source", "bm25_search"}
            /\ last'.user_id = v

C29_CacheFreshness == [](CacheFresh /\ FreshResults) /\ [][OthersKept]_vars

\* One tenant's chunks were deleted and its entry dropped while the other
\* tenant's index stays cached.
C29_Witness ==
    /\ last.op = "delete_by_source"
    /\ last.result > 0
    /\ ~bm25_cache[last.user_id].cached
    /\ \E v \in Tenants \ {last.user_id} :
          bm25_cache[v].cached /\ bm25_cache[v].entries # <<>>

-----------------------------------------------------------------------------
(* C30: rebuild equivalence -- the rebuild script runs to its end, and the *)
(* index it saves answers every tenant's search, for every query and       *)
(* top_k, with the chunks the index maintained through add_chunks at       *)
(* ingestion returns.                                                      *)
C30_RebuildEquivalence ==
    last.op = "rebuild_bm25" =>
        /\ last.completed
        /\ \A u \in Tenants, q \in Queries, k \in TopKs :
              BM25Search(Load(EmptyIndex, snapshot), q, k, u) = BM25Search(TheIndex, q, k, u)

=============================================================================
